---- MODULE Spec2Model ----
(***************************************************************************)
(* CheatNote: the in-memory record store (notes_io.c), the binary snapshot *)
(* with atomic replacement (db.c) and the string helpers they use          *)
(* (utils.c).                                                              *)
(*                                                                         *)
(* Representation.  A C string is the sequence of its characters before    *)
(* the terminating NUL; a character is a one-character TLA+ string.  The   *)
(* NULL pointer is the one-element sequence NULL, which is no C string.    *)
(* A char buffer of size n holds a string of at most n - 1 characters; a   *)
(* buffer read from a file that holds no NUL at all is a sequence of n     *)
(* characters.  db.notes == NULL is the empty sequence of slots.           *)
(***************************************************************************)
EXTENDS Integers, Sequences, FiniteSets, TLC

VARIABLES db, now, pc, call, old, disk, save, adds, saved, issued, search,
          race, csv

vars == <<db, now, pc, call, old, disk, save, adds, saved, issued, search,
          race, csv>>

(***************************************************************************)
(* Sizes.  The program's limits are scaled down so that every boundary     *)
(* (a full buffer, a full store, a clamped growth, a wrapped id counter)   *)
(* is reached within a few steps.                                          *)
(***************************************************************************)
MAX_TITLE_LEN == 3
MAX_CONTENT_LEN == 7
MAX_TAGS_LEN == 3
INITIAL_CAPACITY == 1
MAX_NOTES == 3
GROWTH_FACTOR == 2
\* unsigned int has UINT_BITS bits: ids live in 0 .. 2^UINT_BITS - 1
UINT_BITS == 2
UINT_MOD == 2 ^ UINT_BITS
\* the clock read by time(NULL) runs over 0 .. MaxTime
MaxTime == 1
\* a process makes at most MaxAdds successful adds; adds counts them from the
\* empty store on (-1 when the store was loaded from a snapshot)
MaxAdds == 4
\* SpecEdit edits stores of at most EditNotes notes
EditNotes == 2
\* SpecDisk follows a store over its first DiskNotes ids
DiskNotes == 2
\* cn_cmd_list is run on stores of at most ListNotes notes
ListNotes == 2
\* size_t arithmetic of the growth guard: the largest value TLC can hold
\* stands for SIZE_MAX, sizeof(cn_note) is the size of the real struct
SIZE_MAX == 2147483647
SizeofNote == 8984

NULL == <<"NULL">>

Min(a, b) == IF a < b THEN a ELSE b

\* isspace() in the C locale
IsSpace(c) == c \in {" ", "\t", "\n", "\r"}

\* n copies of the character c
Fill(n, c) == [i \in 1..n |-> c]

----------------------------------------------------------------------------
(* utils.c *)

\* cn_safe_strncpy(dest, src, dest_size): the string dest holds afterwards
cn_safe_strncpy(src, dest_size) == SubSeq(src, 1, Min(Len(src), dest_size - 1))

RECURSIVE TrimTrailing(_)
TrimTrailing(s) ==
    IF Len(s) > 0 /\ IsSpace(s[Len(s)])
    THEN TrimTrailing(SubSeq(s, 1, Len(s) - 1))
    ELSE s

RECURSIVE LeadingSpaces(_, _)
LeadingSpaces(s, start) ==
    IF start < Len(s) /\ IsSpace(s[start + 1])
    THEN LeadingSpaces(s, start + 1)
    ELSE start

\* cn_strip_whitespace(str): trailing whitespace is cut first, then the
\* rest is moved left over the leading whitespace
cn_strip_whitespace(str) ==
    IF str = <<>> THEN str
    ELSE LET t == TrimTrailing(str)
             start == LeadingSpaces(t, 0)
         IN  IF start > 0 THEN SubSeq(t, start + 1, Len(t)) ELSE t

----------------------------------------------------------------------------
(* cheatnote.h, db.c: the store *)

\* a slot as calloc/memset leave it
ZeroNote == [id |-> 0, title |-> <<>>, content |-> <<>>, tags |-> <<>>,
             created_at |-> 0, modified_at |-> 0]

\* cn_note_db db = {0}
DbZero == [notes |-> <<>>, count |-> 0, capacity |-> 0, next_id |-> 0]

\* cn_db_init(): allocate an empty store unless one is allocated.
\* allocOk is whether calloc succeeds; a failed calloc is fatal.
cn_db_init(d, allocOk) ==
    IF d.notes # <<>> THEN [db |-> d, fatal |-> FALSE]
    ELSE IF ~allocOk
         THEN [db |-> [d EXCEPT !.capacity = INITIAL_CAPACITY], fatal |-> TRUE]
         ELSE [db |-> [notes |-> [i \in 1..INITIAL_CAPACITY |-> ZeroNote],
                       count |-> 0, capacity |-> INITIAL_CAPACITY, next_id |-> 1],
               fatal |-> FALSE]

\* cn_db_cleanup()
cn_db_cleanup(d) == [notes |-> <<>>, count |-> 0, capacity |-> 0, next_id |-> 1]

----------------------------------------------------------------------------
(* notes_io.c *)

\* a bug ensure_capacity_for_one could have: the new capacity is not clamped
NewCapacityNoClamp(capacity) == capacity * GROWTH_FACTOR

\* the capacity ensure_capacity_for_one grows to: doubled, clamped
NewCapacity(capacity) == Min(capacity * GROWTH_FACTOR, MAX_NOTES)

\* a bug ensure_capacity_for_one could have: the grown array is a new zeroed
\* one, the old slots are not carried over
EnsureCapacityLossy(d, allocOk) ==
    IF d.notes = <<>>
    THEN LET r == cn_db_init(d, allocOk)
         IN  [ok |-> TRUE, fatal |-> r.fatal, db |-> r.db]
    ELSE IF d.count < d.capacity
    THEN [ok |-> TRUE, fatal |-> FALSE, db |-> d]
    ELSE IF NewCapacity(d.capacity) <= d.capacity \/ ~allocOk
    THEN [ok |-> FALSE, fatal |-> FALSE, db |-> d]
    ELSE [ok |-> TRUE, fatal |-> FALSE,
          db |-> [d EXCEPT
                    !.notes = [i \in 1..NewCapacity(d.capacity) |-> ZeroNote],
                    !.capacity = NewCapacity(d.capacity)]]

\* ensure_capacity_for_one(): [ok, fatal, db]
ensure_capacity_for_one(d, allocOk) ==
    IF d.notes = <<>>
    THEN LET r == cn_db_init(d, allocOk)
         IN  [ok |-> TRUE, fatal |-> r.fatal, db |-> r.db]
    ELSE IF d.count < d.capacity
    THEN [ok |-> TRUE, fatal |-> FALSE, db |-> d]
    ELSE IF d.capacity > (SIZE_MAX \div GROWTH_FACTOR) \div SizeofNote
    THEN [ok |-> FALSE, fatal |-> FALSE, db |-> d]
    ELSE IF NewCapacity(d.capacity) <= d.capacity
    THEN [ok |-> FALSE, fatal |-> FALSE, db |-> d]
    ELSE IF ~allocOk
    THEN [ok |-> FALSE, fatal |-> FALSE, db |-> d]
    ELSE [ok |-> TRUE, fatal |-> FALSE,
          db |-> [d EXCEPT
                    !.notes = [i \in 1..NewCapacity(d.capacity) |->
                                 IF i <= d.capacity THEN d.notes[i] ELSE ZeroNote],
                    !.capacity = NewCapacity(d.capacity)]]

\* a bug cn_note_add could have: next_id is not stepped
NextIdStuck(next_id) == next_id

\* a bug cn_note_add could have: no guard against the wrap to 0
NextIdNoGuard(next_id) == (next_id + 1) % UINT_MOD

\* db.next_id++ with the wrap guard
NextId(next_id) ==
    IF (next_id + 1) % UINT_MOD = 0 THEN 1 ELSE (next_id + 1) % UINT_MOD

\* the note cn_note_add writes into the slot db.notes[db.count]
NewNote(id, title, content, tags, t) ==
    [id |-> id,
     title |-> cn_strip_whitespace(cn_safe_strncpy(title, MAX_TITLE_LEN)),
     content |-> cn_strip_whitespace(cn_safe_strncpy(content, MAX_CONTENT_LEN)),
     tags |-> IF tags # NULL /\ tags # <<>>
              THEN cn_strip_whitespace(cn_safe_strncpy(tags, MAX_TAGS_LEN))
              ELSE <<>>,
     created_at |-> t, modified_at |-> t]

\* a bug cn_note_add could have: the length of tags is not checked
AddArgsInvalidNoTags(title, content, tags) ==
    \/ title = NULL \/ content = NULL
    \/ title = <<>> \/ content = <<>>
    \/ Len(title) >= MAX_TITLE_LEN \/ Len(content) >= MAX_CONTENT_LEN

\* cn_note_add: the four early returns on the arguments
AddArgsInvalid(title, content, tags) ==
    \/ title = NULL \/ content = NULL
    \/ title = <<>> \/ content = <<>>
    \/ Len(title) >= MAX_TITLE_LEN \/ Len(content) >= MAX_CONTENT_LEN
    \/ (tags # NULL /\ Len(tags) >= MAX_TAGS_LEN)

\* a bug cn_note_add could have: the id is taken before the room is made, so
\* an add that ends the process has stepped next_id
NoteAddIdFirst(d, title, content, tags, t, allocOk) ==
    IF AddArgsInvalid(title, content, tags)
    THEN [db |-> d, ret |-> 0, fatal |-> FALSE]
    ELSE IF d.count >= MAX_NOTES
    THEN [db |-> [d EXCEPT !.next_id = NextId(d.next_id)], ret |-> 0,
          fatal |-> TRUE]
    ELSE LET e == ensure_capacity_for_one(d, allocOk)
         IN  IF ~e.ok \/ e.fatal
             THEN [db |-> [e.db EXCEPT !.next_id = NextId(d.next_id)],
                   ret |-> 0, fatal |-> TRUE]
             ELSE [db |-> [e.db EXCEPT
                             !.notes[e.db.count + 1] =
                                 NewNote(e.db.next_id, title, content, tags, t),
                             !.next_id = NextId(e.db.next_id),
                             !.count = e.db.count + 1],
                   ret |-> e.db.next_id, fatal |-> FALSE]

\* cn_note_add(title, content, tags) at time t: [db, ret, fatal]
cn_note_add(d, title, content, tags, t, allocOk) ==
    IF AddArgsInvalid(title, content, tags)
    THEN [db |-> d, ret |-> 0, fatal |-> FALSE]
    ELSE IF d.count >= MAX_NOTES
    THEN [db |-> d, ret |-> 0, fatal |-> TRUE]
    ELSE LET e == ensure_capacity_for_one(d, allocOk)
         IN  IF ~e.ok \/ e.fatal
             THEN [db |-> e.db, ret |-> 0, fatal |-> TRUE]
             ELSE [db |-> [e.db EXCEPT
                             !.notes[e.db.count + 1] =
                                 NewNote(e.db.next_id, title, content, tags, t),
                             !.next_id = NextId(e.db.next_id),
                             !.count = e.db.count + 1],
                   ret |-> e.db.next_id, fatal |-> FALSE]

\* the index of the first live slot holding id, 0 when there is none
RECURSIVE FindFrom(_, _, _)
FindFrom(d, id, i) ==
    IF i > d.count THEN 0
    ELSE IF d.notes[i].id = id THEN i
    ELSE FindFrom(d, id, i + 1)

\* a bug the search loop could have: it falls through to the last live slot
FindOrLast(d, id) == IF FindFrom(d, id, 1) = 0 THEN d.count ELSE FindFrom(d, id, 1)

Find(d, id) == FindFrom(d, id, 1)

\* cn_note_edit: the title branch; [stop, note]
EditTitle(note, title) ==
    IF title # NULL /\ title # <<>>
    THEN IF Len(title) >= MAX_TITLE_LEN
         THEN [stop |-> TRUE, note |-> note]
         ELSE [stop |-> FALSE,
               note |-> [note EXCEPT !.title =
                           cn_strip_whitespace(cn_safe_strncpy(title, MAX_TITLE_LEN))]]
    ELSE [stop |-> FALSE, note |-> note]

\* cn_note_edit: the content branch
EditContent(note, content) ==
    IF content # NULL /\ content # <<>>
    THEN IF Len(content) >= MAX_CONTENT_LEN
         THEN [stop |-> TRUE, note |-> note]
         ELSE [stop |-> FALSE,
               note |-> [note EXCEPT !.content =
                           cn_strip_whitespace(cn_safe_strncpy(content, MAX_CONTENT_LEN))]]
    ELSE [stop |-> FALSE, note |-> note]

\* a bug cn_note_edit could have: empty tags are skipped like an empty title
EditTagsSkipEmpty(note, tags) ==
    IF tags # NULL /\ tags # <<>>
    THEN IF Len(tags) >= MAX_TAGS_LEN
         THEN [stop |-> TRUE, note |-> note]
         ELSE [stop |-> FALSE,
               note |-> [note EXCEPT !.tags =
                           cn_strip_whitespace(cn_safe_strncpy(tags, MAX_TAGS_LEN))]]
    ELSE [stop |-> FALSE, note |-> note]

\* cn_note_edit: the tags branch
EditTags(note, tags) ==
    IF tags # NULL
    THEN IF Len(tags) >= MAX_TAGS_LEN
         THEN [stop |-> TRUE, note |-> note]
         ELSE [stop |-> FALSE,
               note |-> [note EXCEPT !.tags =
                           cn_strip_whitespace(cn_safe_strncpy(tags, MAX_TAGS_LEN))]]
    ELSE [stop |-> FALSE, note |-> note]

\* a bug cn_note_edit could have: the edit stamps created_at as well
EditNoteStampsBoth(note, title, content, tags, t) ==
    LET a == EditTitle(note, title)
        b == EditContent(a.note, content)
        c == EditTags(b.note, tags)
    IN  IF a.stop THEN [ret |-> 0, note |-> a.note]
        ELSE IF b.stop THEN [ret |-> 0, note |-> b.note]
        ELSE IF c.stop THEN [ret |-> 0, note |-> c.note]
        ELSE [ret |-> 1, note |-> [c.note EXCEPT !.modified_at = t, !.created_at = t]]

\* cn_note_edit: the body run on the slot found; the three branches in the
\* order of the code, each writing the note before the next one is checked
EditNote(note, title, content, tags, t) ==
    LET a == EditTitle(note, title)
        b == EditContent(a.note, content)
        c == EditTags(b.note, tags)
    IN  IF a.stop THEN [ret |-> 0, note |-> a.note]
        ELSE IF b.stop THEN [ret |-> 0, note |-> b.note]
        ELSE IF c.stop THEN [ret |-> 0, note |-> c.note]
        ELSE [ret |-> 1, note |-> [c.note EXCEPT !.modified_at = t]]

\* cn_note_edit(id, title, content, tags) at time t: [db, ret]
cn_note_edit(d, id, title, content, tags, t) ==
    IF id = 0 THEN [db |-> d, ret |-> 0]
    ELSE LET i == Find(d, id)
         IN  IF i = 0 THEN [db |-> d, ret |-> 0]
             ELSE LET r == EditNote(d.notes[i], title, content, tags, t)
                  IN  [db |-> [d EXCEPT !.notes[i] = r.note], ret |-> r.ret]

\* a bug cn_note_delete could have: the last note is not moved into the hole
DeleteDropLast(d, id) ==
    IF id = 0 \/ Find(d, id) = 0 THEN [db |-> d, ret |-> 0]
    ELSE [db |-> [d EXCEPT !.notes[d.count] = ZeroNote, !.count = d.count - 1],
          ret |-> 1]

\* cn_note_delete(id): [db, ret]
cn_note_delete(d, id) ==
    IF id = 0 THEN [db |-> d, ret |-> 0]
    ELSE LET i == Find(d, id)
         IN  IF i = 0 THEN [db |-> d, ret |-> 0]
             ELSE [db |-> [d EXCEPT
                             !.notes = [k \in 1..d.capacity |->
                                          IF k = d.count THEN ZeroNote
                                          ELSE IF k = i THEN d.notes[d.count]
                                          ELSE d.notes[k]],
                             !.count = d.count - 1],
                   ret |-> 1]

----------------------------------------------------------------------------
(* db.c: the snapshot file *)

\* a path of the file system: absent, or a file holding a sequence of items
\* (count, next_id, then one item per record written)
NoFile == [exists |-> FALSE, data |-> <<>>]
FileOf(data) == [exists |-> TRUE, data |-> data]

\* the bytes cn_db_save writes: the header, then the live slots
Header(d) == <<d.count, d.next_id>>
Records(d) == SubSeq(d.notes, 1, d.count)
Snapshot(d) == Header(d) \o Records(d)

\* the capacity cn_db_load allocates for file_count records
LoadCapacity(file_count) ==
    LET cap == IF file_count < INITIAL_CAPACITY THEN INITIAL_CAPACITY ELSE file_count
    IN  IF cap < file_count * GROWTH_FACTOR /\ file_count * GROWTH_FACTOR <= MAX_NOTES
        THEN file_count * GROWTH_FACTOR
        ELSE cap

\* a bug cn_db_load could have: the buffers are left as they were read
SanitizeNothing(note) == note

\* the sanitization loop of cn_db_load: the last byte of each buffer is set to NUL
Sanitize(note) ==
    [note EXCEPT !.title = SubSeq(@, 1, Min(Len(@), MAX_TITLE_LEN - 1)),
                 !.content = SubSeq(@, 1, Min(Len(@), MAX_CONTENT_LEN - 1)),
                 !.tags = SubSeq(@, 1, Min(Len(@), MAX_TAGS_LEN - 1))]

\* a bug cn_db_load could have: next_id of an empty snapshot is not kept
LoadForgetsNextId(d, file, allocOk, initOk) ==
    IF ~file.exists THEN cn_db_init(d, allocOk)
    ELSE IF Len(file.data) < 2 THEN cn_db_init(d, allocOk)
    ELSE LET file_count == file.data[1]
             file_next_id == file.data[2]
         IN  IF file_count > MAX_NOTES \/ file_next_id = 0
             THEN cn_db_init(d, allocOk)
             ELSE IF file_count = 0
             THEN cn_db_init(d, allocOk)
             ELSE IF ~allocOk THEN [db |-> d, fatal |-> TRUE]
             ELSE IF Len(file.data) - 2 < file_count
             THEN cn_db_init(d, initOk)
             ELSE [db |-> [notes |-> [i \in 1..LoadCapacity(file_count) |->
                                        IF i <= file_count
                                        THEN Sanitize(file.data[2 + i])
                                        ELSE ZeroNote],
                           count |-> file_count,
                           capacity |-> LoadCapacity(file_count),
                           next_id |-> file_next_id],
                   fatal |-> FALSE]

\* a bug cn_db_load could have: after a short read of the records the
\* next_id of the header is kept
LoadShortKeepsNextId(d, file, allocOk, initOk) ==
    IF ~file.exists THEN cn_db_init(d, allocOk)
    ELSE IF Len(file.data) < 2 THEN cn_db_init(d, allocOk)
    ELSE LET file_count == file.data[1]
             file_next_id == file.data[2]
         IN  IF file_count > MAX_NOTES \/ file_next_id = 0
             THEN cn_db_init(d, allocOk)
             ELSE IF file_count = 0
             THEN LET r == cn_db_init(d, allocOk)
                  IN  [db |-> IF r.fatal THEN r.db
                              ELSE [r.db EXCEPT !.next_id = file_next_id],
                       fatal |-> r.fatal]
             ELSE IF ~allocOk THEN [db |-> d, fatal |-> TRUE]
             ELSE IF Len(file.data) - 2 < file_count
             THEN LET r == cn_db_init(d, initOk)
                  IN  [db |-> IF r.fatal THEN r.db
                              ELSE [r.db EXCEPT !.next_id = file_next_id],
                       fatal |-> r.fatal]
             ELSE [db |-> [notes |-> [i \in 1..LoadCapacity(file_count) |->
                                        IF i <= file_count
                                        THEN Sanitize(file.data[2 + i])
                                        ELSE ZeroNote],
                           count |-> file_count,
                           capacity |-> LoadCapacity(file_count),
                           next_id |-> file_next_id],
                   fatal |-> FALSE]

\* cn_db_load() of the file at the snapshot path into the store d: [db, fatal].
\* allocOk is whether the first calloc the path reaches succeeds, initOk
\* whether the calloc of cn_db_init after a short read of the records does.
cn_db_load(d, file, allocOk, initOk) ==
    IF ~file.exists THEN cn_db_init(d, allocOk)
    ELSE IF Len(file.data) < 2 THEN cn_db_init(d, allocOk)
    ELSE LET file_count == file.data[1]
             file_next_id == file.data[2]
         IN  IF file_count > MAX_NOTES \/ file_next_id = 0
             THEN cn_db_init(d, allocOk)
             ELSE IF file_count = 0
             THEN LET r == cn_db_init(d, allocOk)
                  IN  [db |-> IF r.fatal THEN r.db
                              ELSE [r.db EXCEPT !.next_id = file_next_id],
                       fatal |-> r.fatal]
             ELSE IF ~allocOk THEN [db |-> d, fatal |-> TRUE]
             ELSE IF Len(file.data) - 2 < file_count
             THEN cn_db_init(d, initOk)
             ELSE [db |-> [notes |-> [i \in 1..LoadCapacity(file_count) |->
                                        IF i <= file_count
                                        THEN Sanitize(file.data[2 + i])
                                        ELSE ZeroNote],
                           count |-> file_count,
                           capacity |-> LoadCapacity(file_count),
                           next_id |-> file_next_id],
                   fatal |-> FALSE]

----------------------------------------------------------------------------
(* The process.  pc is its position: "boot" (main, before cn_db_load),
   "idle" (between calls), "call" (a store call entered with the arguments
   in call), "ret" (the call returned: call holds the arguments and the
   result, old the store before the call), the steps of cn_db_save, and
   "dead" (the process ended). *)

NoArg == <<>>
Call(op, id, title, content, tags) ==
    [op |-> op, id |-> id, title |-> title, content |-> content, tags |-> tags,
     ret |-> 0, fatal |-> FALSE]
NoCall == Call("none", 0, NoArg, NoArg, NoArg)

\* what the running cn_db_save has seen: the files when it began, the step
\* that failed ("" while none has), whether remove(tmp) was called ("no",
\* "yes", or "failed" when remove itself failed) and stdio's buffer.
\* saved is the store as it was when the last rename succeeded.  issued is
\* the set of ids cn_note_add has returned for the store kept at the snapshot
\* path, over all processes; a process that finds no snapshot starts anew.
\* search is the matching call that just returned (NoSearch when none).
NoSave == [final |-> NoFile, tmp |-> NoFile, failed |-> "", removed |-> "no",
           buf |-> <<>>]

\* cn_search_opts opts = {0}
NoOpts == [pattern |-> NULL, tags |-> NULL, case_insensitive |-> FALSE,
           regex_mode |-> FALSE, exact_match |-> FALSE,
           word_boundary |-> FALSE, multiline_mode |-> FALSE]

\* a matching call: its arguments, what the environment gave it (env: one
\* record per call of a matching function), its result (ret) and, for a
\* list, the notes it printed (found)
NoSearch == [op |-> "none", note |-> ZeroNote, opts |-> NoOpts, env |-> <<>>,
             ret |-> 0, found |-> <<>>]

\* Two processes run against one snapshot path (race).  The files are
\* inodes: ino[k] is what inode k holds, final and tmp are the inodes the
\* paths <path> and <path>.tmp name (0: no such file).  Of each process:
\* its position pc, its store db, the inode its FILE writes to (fd, 0 while
\* none is open), the offset of that descriptor (pos, in items) and stdio's
\* buffer (buf).  last is the process whose rename succeeded last (0: none
\* yet), snaps the complete snapshots: the one found at the start and the
\* store of each process as it was when its cn_db_save began.
Procs == {1, 2}

\* the store an earlier run left at the snapshot path
BaseStore ==
    cn_note_add(cn_db_init(DbZero, TRUE).db, <<"z">>, <<"c">>, NULL, 0, TRUE).db

NoProc == [pc |-> "boot", db |-> DbZero, fd |-> 0, pos |-> 0, buf |-> <<>>]

RaceInit ==
    [ino |-> <<Snapshot(BaseStore)>>, final |-> 1, tmp |-> 0,
     proc |-> [p \in Procs |-> NoProc], last |-> 0,
     snaps |-> {Snapshot(BaseStore)}]

\* what the CSV commands have done (csv): the file cn_cmd_export wrote or
\* somebody put there, the command that ran last (op, "none" once its
\* caller went on), and of an import its mode, the store it found (before),
\* its two counters and whether it ended the process before its save
NoCsv == [file |-> NoFile, op |-> "none", merge |-> FALSE, before |-> DbZero,
          imported |-> 0, errors |-> 0, fatal |-> FALSE]

Init ==
    /\ race = RaceInit
    /\ csv = NoCsv
    /\ db = DbZero
    /\ now = 0
    /\ pc = "boot"
    /\ call = NoCall
    /\ old = DbZero
    /\ disk = [final |-> NoFile, tmp |-> NoFile]
    /\ save = NoSave
    /\ adds = 0
    /\ saved = DbZero
    /\ issued = {}
    /\ search = NoSearch

\* whether the store is the empty one cn_db_init makes
Fresh(d) == d.count = 0 /\ d.next_id = 1

\* main(): cn_db_load() before any command runs
Load ==
    /\ pc = "boot"
    /\ \E allocOk \in BOOLEAN, initOk \in BOOLEAN :
         LET r == cn_db_load(db, disk.final, allocOk, initOk)
         IN  /\ db' = r.db
             /\ pc' = IF r.fatal THEN "dead" ELSE "ret"
             /\ call' = [Call("load", 0, NoArg, NoArg, NoArg) EXCEPT !.fatal = r.fatal]
             /\ adds' = IF Fresh(r.db) THEN 0 ELSE -1
    /\ issued' = IF disk.final.exists THEN issued ELSE {}
    /\ old' = db
    /\ UNCHANGED <<now, disk, save, saved, search, race, csv>>

\* a caller enters cn_note_add(title, content, tags)
CallAdd(T, C, G) ==
    /\ pc = "idle"
    /\ adds < MaxAdds
    /\ \E title \in T, content \in C, tags \in G :
         call' = Call("add", 0, title, content, tags)
    /\ pc' = "call"
    /\ UNCHANGED <<db, now, old, disk, save, adds, saved, issued, search, race, csv>>

\* a caller enters cn_note_edit(id, title, content, tags)
CallEdit(I, T, C, G) ==
    /\ pc = "idle"
    /\ \E id \in I, title \in T, content \in C, tags \in G :
         call' = Call("edit", id, title, content, tags)
    /\ pc' = "call"
    /\ UNCHANGED <<db, now, old, disk, save, adds, saved, issued, search, race, csv>>

\* a caller enters cn_note_delete(id)
CallDelete(I) ==
    /\ pc = "idle"
    /\ \E id \in I : call' = Call("delete", id, NoArg, NoArg, NoArg)
    /\ pc' = "call"
    /\ UNCHANGED <<db, now, old, disk, save, adds, saved, issued, search, race, csv>>

\* cn_note_add runs and returns, or ends the process
DoAdd ==
    /\ pc = "call" /\ call.op = "add"
    /\ \E allocOk \in BOOLEAN :
         LET r == cn_note_add(db, call.title, call.content, call.tags, now, allocOk)
         IN  /\ db' = r.db
             /\ pc' = IF r.fatal THEN "dead" ELSE "ret"
             /\ call' = [call EXCEPT !.ret = r.ret, !.fatal = r.fatal]
             /\ adds' = IF r.ret # 0 /\ adds >= 0 THEN adds + 1 ELSE adds
             /\ issued' = IF r.ret # 0 THEN issued \cup {r.ret} ELSE issued
    /\ old' = db
    /\ UNCHANGED <<now, disk, save, saved, search, race, csv>>

\* cn_note_edit runs and returns
DoEdit ==
    /\ pc = "call" /\ call.op = "edit"
    /\ LET r == cn_note_edit(db, call.id, call.title, call.content, call.tags, now)
       IN  /\ db' = r.db
           /\ call' = [call EXCEPT !.ret = r.ret]
    /\ pc' = "ret"
    /\ old' = db
    /\ UNCHANGED <<now, disk, save, adds, saved, issued, search, race, csv>>

\* cn_note_delete runs and returns
DoDelete ==
    /\ pc = "call" /\ call.op = "delete"
    /\ LET r == cn_note_delete(db, call.id)
       IN  /\ db' = r.db
           /\ call' = [call EXCEPT !.ret = r.ret]
    /\ pc' = "ret"
    /\ old' = db
    /\ UNCHANGED <<now, disk, save, adds, saved, issued, search, race, csv>>

\* the caller goes on after a call returned
Continue ==
    /\ pc = "ret"
    /\ pc' = "idle"
    /\ call' = NoCall
    /\ old' = DbZero
    /\ save' = NoSave
    /\ search' = NoSearch
    /\ csv' = [csv EXCEPT !.op = "none"]
    /\ UNCHANGED <<db, now, disk, adds, saved, issued, race>>

\* the clock advances
Tick ==
    /\ pc = "idle"
    /\ now < MaxTime
    /\ now' = now + 1
    /\ UNCHANGED <<db, pc, call, old, disk, save, adds, saved, issued, search, race, csv>>

\* a new process starts after the last one ended
Restart ==
    /\ pc = "dead"
    /\ pc' = "boot"
    /\ db' = DbZero
    /\ old' = DbZero
    /\ call' = NoCall
    /\ save' = NoSave
    /\ adds' = 0
    /\ UNCHANGED <<now, disk, saved, issued, search, race, csv>>

----------------------------------------------------------------------------
(* The strings callers pass, for a buffer of size max: absent, empty, blank,
   one that needs a trim, a plain one, one that fills the buffer and one too
   long by one character. *)
Absent == {NULL}
Empty == {<<>>}
Blank == {<<" ">>}
Padded(max, c) == {<<" ">> \o Fill(max - 2, c)}
Plain(c) == {<<c>>}
Full(max, c) == {Fill(max - 1, c)}
TooLong(max, c) == {Fill(max, c)}

IdArgs == 0..(UINT_MOD - 1)

----------------------------------------------------------------------------
(* SpecAdd: adds with every kind of argument. *)

AddTitles == Absent \cup Empty \cup Blank \cup Padded(MAX_TITLE_LEN, "a")
             \cup Plain("b") \cup TooLong(MAX_TITLE_LEN, "a")
AddContents == Absent \cup Empty \cup Padded(MAX_CONTENT_LEN, "c")
               \cup TooLong(MAX_CONTENT_LEN, "c")
AddTags == Absent \cup Empty \cup Padded(MAX_TAGS_LEN, "t")
           \cup TooLong(MAX_TAGS_LEN, "t")

NextAdd ==
    \/ Load
    \/ CallAdd(AddTitles, AddContents, AddTags)
    \/ DoAdd
    \/ Continue
    \/ Tick
    \/ Restart

SpecAdd == Init /\ [][NextAdd]_vars

----------------------------------------------------------------------------
(* SpecDelete: plain adds and deletes, up to the wrap of next_id. *)

NextDelete ==
    \/ Load
    \/ CallAdd(Plain("a") \cup Plain("b"), Plain("c"), Absent)
    \/ CallDelete(IdArgs)
    \/ DoAdd
    \/ DoDelete
    \/ Continue
    \/ Restart

SpecDelete == Init /\ [][NextDelete]_vars

----------------------------------------------------------------------------
(* SpecEdit: edits with every kind of argument on a store of a few notes. *)

\* the caller adds while the store holds fewer than EditNotes notes
AddFew ==
    /\ db.count < EditNotes
    /\ CallAdd(Padded(MAX_TITLE_LEN, "a"), Padded(MAX_CONTENT_LEN, "c"),
               Absent \cup Padded(MAX_TAGS_LEN, "t"))

EditTitles == Absent \cup Empty \cup Padded(MAX_TITLE_LEN, "b")
              \cup TooLong(MAX_TITLE_LEN, "b")
EditContents == Absent \cup Empty \cup Padded(MAX_CONTENT_LEN, "d")
                \cup TooLong(MAX_CONTENT_LEN, "d")
EditTagsArgs == Absent \cup Empty \cup Padded(MAX_TAGS_LEN, "t")
                \cup TooLong(MAX_TAGS_LEN, "t")
\* the ids edited: 0, the ids of the first two notes and an id no note has
EditIds == {0, 1, 2, UINT_MOD - 1}

NextEdit ==
    \/ Load
    \/ AddFew
    \/ CallEdit(EditIds, EditTitles, EditContents, EditTagsArgs)
    \/ DoAdd
    \/ DoEdit
    \/ Continue
    \/ Tick
    \/ Restart

SpecEdit == Init /\ [][NextEdit]_vars

----------------------------------------------------------------------------
(* SpecMissing: edits and deletes with every id, among them 0 and ids no
   live note has, on stores of plain notes. *)

NextMissing ==
    \/ Load
    \/ CallAdd(Plain("a"), Plain("c"), Absent)
    \/ CallEdit(IdArgs, Plain("b"), Absent \cup Plain("d"), Absent \cup Empty)
    \/ CallDelete(IdArgs)
    \/ DoAdd
    \/ DoEdit
    \/ DoDelete
    \/ Continue
    \/ Restart

SpecMissing == Init /\ [][NextMissing]_vars

----------------------------------------------------------------------------
(* SpecLoad: a process starts on whatever lies at the snapshot path: nothing,
   a file cut short, a header out of range, or a file cn_db_load accepts,
   with records as they come (an id of 0, a title that fills its buffer
   with no NUL), and then works on the store it got. *)

\* records found in files
FileNote(id, title) ==
    [id |-> id, title |-> title, content |-> <<"c">>, tags |-> <<>>,
     created_at |-> 0, modified_at |-> 0]
FileNotes == {FileNote(1, <<"a">>), FileNote(0, Fill(MAX_TITLE_LEN, "z")),
              [FileNote(2, <<"b">>) EXCEPT !.created_at = -1]}

\* the files: a header cut short, or a header followed by up to two records
FileHeads == {<<>>} \cup {<<c>> : c \in 0..(MAX_NOTES + 1)}
FileHeaders == {<<c, n>> : c \in 0..(MAX_NOTES + 1), n \in {0, 1, UINT_MOD - 1}}
FileRecords == {<<>>} \cup {<<x>> : x \in FileNotes}
               \cup {<<x, y>> : x \in FileNotes, y \in FileNotes}
Files == {NoFile} \cup {FileOf(h) : h \in FileHeads}
         \cup {FileOf(h \o r) : h \in FileHeaders, r \in FileRecords}

\* before the process starts, something puts a file at the snapshot path
Plant ==
    /\ pc = "boot"
    /\ \E f \in Files : disk' = [disk EXCEPT !.final = f]
    /\ UNCHANGED <<db, now, pc, call, old, save, adds, saved, issued, search, race, csv>>

NextLoad ==
    \/ Plant
    \/ Load
    \/ CallAdd(Plain("a"), Plain("c"), Absent)
    \/ CallEdit({0, 1}, Plain("b"), Absent, Absent)
    \/ CallDelete({0, 1})
    \/ DoAdd
    \/ DoEdit
    \/ DoDelete
    \/ Continue
    \/ Restart

SpecLoad == Init /\ [][NextLoad]_vars

----------------------------------------------------------------------------
(* search.c *)

\* the longest pattern the matcher takes, and the room cn_note_match_content
\* adds to a pattern's length for the regex buffer
MAX_SEARCH_LEN == 5
PatternRoom == 16

UpperCase == {"A", "B", "C", "D", "T", "Z"}

\* tolower() in the C locale
tolower(c) ==
    CASE c = "A" -> "a" [] c = "B" -> "b" [] c = "C" -> "c"
      [] c = "D" -> "d" [] c = "T" -> "t" [] c = "Z" -> "z"
      [] OTHER -> c

\* the loops "for (p = copy; *p; ++p) *p = tolower(*p)"
LowerCopy(s) == [i \in 1..Len(s) |-> tolower(s[i])]

\* strstr(): the first position of needle in haystack, 0 when there is none
RECURSIVE StrstrFrom(_, _, _)
StrstrFrom(haystack, needle, i) ==
    IF i + Len(needle) - 1 > Len(haystack) THEN 0
    ELSE IF SubSeq(haystack, i, i + Len(needle) - 1) = needle THEN i
    ELSE StrstrFrom(haystack, needle, i + 1)

strstr(haystack, needle) == StrstrFrom(haystack, needle, 1)

\* strtok_r() called until it returns NULL: the non-empty runs of characters
\* other than delim, in order
RECURSIVE TokensFrom(_, _, _, _)
TokensFrom(s, delim, i, cur) ==
    IF i > Len(s)
    THEN IF cur = <<>> THEN <<>> ELSE <<cur>>
    ELSE IF s[i] = delim
         THEN IF cur = <<>> THEN TokensFrom(s, delim, i + 1, <<>>)
              ELSE <<cur>> \o TokensFrom(s, delim, i + 1, <<>>)
         ELSE TokensFrom(s, delim, i + 1, Append(cur, s[i]))

strtok_r(s, delim) == TokensFrom(s, delim, 1, <<>>)

\* the while loop of cn_note_match_tags: it stops with match = 0 at the first
\* token that is non-empty once trimmed and is not found in note_copy
RECURSIVE MatchTokens(_, _, _)
MatchTokens(note_copy, tokens, i) ==
    IF i > Len(tokens) THEN 1
    ELSE IF cn_strip_whitespace(tokens[i]) # <<>>
            /\ strstr(note_copy, cn_strip_whitespace(tokens[i])) = 0
         THEN 0
         ELSE MatchTokens(note_copy, tokens, i + 1)

\* allocOk: both malloc calls of the lower-cased copies succeed
cn_note_match_tags(note_tags, search_tags, allocOk) ==
    IF search_tags = NULL \/ search_tags = <<>> THEN 1
    ELSE IF note_tags = NULL \/ note_tags = <<>> THEN 0
    ELSE IF Len(note_tags) >= MAX_TAGS_LEN \/ Len(search_tags) >= MAX_TAGS_LEN
    THEN 0
    ELSE IF ~allocOk THEN 0
    ELSE MatchTokens(LowerCopy(note_tags),
                     strtok_r(LowerCopy(search_tags), ","), 1)

\* regcomp() with REG_EXTENDED | REG_NOSUB on the patterns used here: letters
\* and blanks stand for themselves, parentheses group and must balance, a
\* leading and a trailing "\\b" (one element of the buffer) are the word
\* boundaries of the wrapped pattern.  compOk: regcomp finds the memory it
\* needs.
RECURSIVE ParenDepth(_, _, _)
ParenDepth(p, i, depth) ==
    IF depth < 0 THEN depth
    ELSE IF i > Len(p) THEN depth
    ELSE ParenDepth(p, i + 1, CASE p[i] = "(" -> depth + 1
                                [] p[i] = ")" -> depth - 1
                                [] OTHER -> depth)

NotParenOrEdge(c) == c \notin {"(", ")", "\\b"}

regcomp(pattern_buf, icase, compOk) ==
    [ok |-> compOk /\ ParenDepth(pattern_buf, 1, 0) = 0,
     lit |-> SelectSeq(pattern_buf, NotParenOrEdge),
     icase |-> icase,
     edges |-> Len(pattern_buf) >= 2 /\ pattern_buf[1] = "\\b"
               /\ pattern_buf[Len(pattern_buf)] = "\\b"]

\* a word character of the regex library: a letter, a digit or "_"
IsWordChar(c) == c \in UpperCase \cup {"a", "b", "c", "d", "t", "z", "_"}

\* "\\b" matches before position i of text: exactly one of the characters on
\* its two sides is a word character
WordEdge(text, i) ==
    LET before == i > 1 /\ i - 1 <= Len(text) /\ IsWordChar(text[i - 1])
        after == i >= 1 /\ i <= Len(text) /\ IsWordChar(text[i])
    IN  before # after

\* regexec(): 0 is a match somewhere in text, 1 is REG_NOMATCH
regexec(re, text) ==
    LET fold(s) == IF re.icase THEN LowerCopy(s) ELSE s
        n == Len(re.lit)
    IN  IF \E i \in 1..(Len(text) - n + 1) :
              /\ fold(SubSeq(text, i, i + n - 1)) = fold(re.lit)
              /\ re.edges => WordEdge(text, i) /\ WordEdge(text, i + n)
        THEN 0 ELSE 1

\* a bug the regex mode could have: a pattern that does not compile is
\* searched for as plain text
RegexOrPlain(re, note) ==
    IF ~re.ok
    THEN IF strstr(note.title, re.lit) # 0 \/ strstr(note.content, re.lit) # 0
            \/ strstr(note.tags, re.lit) # 0
         THEN 1 ELSE 0
    ELSE IF regexec(re, note.title) = 0 THEN 1
    ELSE IF regexec(re, note.content) = 0 THEN 1
    ELSE IF regexec(re, note.tags) = 0 THEN 1
    ELSE 0

\* the end of the regex mode: the result of regcomp is checked, then the
\* title, the content and the tags are tried in turn
RegexFields(re, note) ==
    IF ~re.ok THEN 0
    ELSE IF regexec(re, note.title) = 0 THEN 1
    ELSE IF regexec(re, note.content) = 0 THEN 1
    ELSE IF regexec(re, note.tags) = 0 THEN 1
    ELSE 0

\* the comparison at the end of the literal mode
LiteralFields(title, content, tags, needle, exact) ==
    IF exact
    THEN IF title = needle \/ content = needle \/ tags = needle THEN 1 ELSE 0
    ELSE IF strstr(title, needle) # 0 \/ strstr(content, needle) # 0
            \/ strstr(tags, needle) # 0
         THEN 1 ELSE 0

\* the refusal of long inputs in the case-insensitive literal mode
TooLargeToFold(note, pattern) ==
    \/ Len(note.title) > MAX_CONTENT_LEN
    \/ Len(note.content) > MAX_CONTENT_LEN
    \/ Len(note.tags) > MAX_TAGS_LEN
    \/ Len(pattern) > MAX_SEARCH_LEN

\* allocOk: the malloc calls of the call succeed; compOk: see regcomp
cn_note_match_content(note, opts, allocOk, compOk) ==
    IF opts.pattern = NULL \/ opts.pattern = <<>> THEN 1
    ELSE IF opts.regex_mode
    THEN LET patlen == Len(opts.pattern)
             need == patlen + PatternRoom
             pattern_buf == IF opts.word_boundary
                            THEN <<"\\b">> \o opts.pattern \o <<"\\b">>
                            ELSE opts.pattern
             rc == patlen + 4
             re == regcomp(pattern_buf, opts.case_insensitive, compOk)
         IN  IF need > MAX_SEARCH_LEN * 4 THEN 0
             ELSE IF ~allocOk THEN 0
             ELSE IF opts.word_boundary /\ rc >= need THEN 0
             ELSE IF ~opts.word_boundary /\ patlen + 1 > need THEN 0
             ELSE RegexFields(re, note)
    ELSE IF opts.case_insensitive
    THEN IF TooLargeToFold(note, opts.pattern) THEN 0
         ELSE IF ~allocOk THEN 0
         ELSE LiteralFields(LowerCopy(note.title), LowerCopy(note.content),
                            LowerCopy(note.tags), LowerCopy(opts.pattern),
                            opts.exact_match)
    ELSE LiteralFields(note.title, note.content, note.tags, opts.pattern,
                       opts.exact_match)

\* a bug the loop of cn_cmd_list could have: one of the two matches is enough
RECURSIVE ListLoopEither(_, _, _, _)
ListLoopEither(d, opts, env, i) ==
    IF i > d.count THEN <<>>
    ELSE (IF cn_note_match_content(d.notes[i], opts, env[i].alloc, env[i].comp) # 0
             \/ cn_note_match_tags(d.notes[i].tags, opts.tags, env[i].tagsAlloc) # 0
          THEN <<d.notes[i]>> ELSE <<>>)
         \o ListLoopEither(d, opts, env, i + 1)

\* the loop of cn_cmd_list from note i on: a note is printed when
\* cn_note_match_content and then cn_note_match_tags return non-zero;
\* env[i] is what the environment gives the calls made for note i
RECURSIVE ListLoop(_, _, _, _)
ListLoop(d, opts, env, i) ==
    IF i > d.count THEN <<>>
    ELSE (IF cn_note_match_content(d.notes[i], opts, env[i].alloc, env[i].comp) # 0
             /\ cn_note_match_tags(d.notes[i].tags, opts.tags, env[i].tagsAlloc) # 0
          THEN <<d.notes[i]>> ELSE <<>>)
         \o ListLoop(d, opts, env, i + 1)

\* what the environment may give the calls made for one note
Envs == [alloc : BOOLEAN, comp : BOOLEAN, tagsAlloc : BOOLEAN]

\* a caller runs cn_note_match_tags(note_tags, search_tags)
MatchTags(N, S) ==
    /\ pc = "idle"
    /\ \E note_tags \in N, search_tags \in S, allocOk \in BOOLEAN :
         search' = [op |-> "match_tags",
                    note |-> [ZeroNote EXCEPT !.tags = note_tags],
                    opts |-> [NoOpts EXCEPT !.tags = search_tags],
                    env |-> <<[alloc |-> TRUE, comp |-> TRUE, tagsAlloc |-> allocOk]>>,
                    ret |-> cn_note_match_tags(note_tags, search_tags, allocOk),
                    found |-> <<>>]
    /\ pc' = "ret"
    /\ old' = db
    /\ UNCHANGED <<db, now, call, disk, save, adds, saved, issued, race, csv>>

\* a caller runs cn_note_match_content(note, opts)
MatchContent(N, O) ==
    /\ pc = "idle"
    /\ \E note \in N, opts \in O, allocOk \in BOOLEAN, compOk \in BOOLEAN :
         search' = [op |-> "match_content", note |-> note, opts |-> opts,
                    env |-> <<[alloc |-> allocOk, comp |-> compOk, tagsAlloc |-> TRUE]>>,
                    ret |-> cn_note_match_content(note, opts, allocOk, compOk),
                    found |-> <<>>]
    /\ pc' = "ret"
    /\ old' = db
    /\ UNCHANGED <<db, now, call, disk, save, adds, saved, issued, race, csv>>

\* cn_cmd_list with options of O, the environment giving each note's calls
\* one of E: it returns 0 and leaves the store and the file alone
List(O, E) ==
    /\ pc = "idle"
    /\ db.count <= ListNotes
    /\ \E opts \in O, env \in [1..db.count -> E] :
         search' = [op |-> "list", note |-> ZeroNote, opts |-> opts,
                    env |-> env, ret |-> 0,
                    found |-> ListLoop(db, opts, env, 1)]
    /\ pc' = "ret"
    /\ old' = db
    /\ UNCHANGED <<db, now, call, disk, save, adds, saved, issued, race, csv>>

----------------------------------------------------------------------------
(* SpecMatch: the matching functions on every short tag string and on notes
   and patterns of every kind (called while the store is empty, which they do
   not read), and lists of a store of at most ListNotes notes. *)

\* the strings over the characters A of at most n characters
Strings(A, n) == UNION {[1..k -> A] : k \in 0..n}

MatchNoteTags == Strings({"a", "A", "b", ","}, MAX_TAGS_LEN - 1)
MatchSearchTags ==
    Absent \cup Strings({"a", "A", "b", ",", " "}, MAX_TAGS_LEN - 1)
    \cup TooLong(MAX_TAGS_LEN, "a")

\* n pairs of parentheses around s
Nest(n, s) == Fill(n, "(") \o s \o Fill(n, ")")

\* a pattern one character longer than the folding literal mode takes, and
\* the shortest nested pattern the regex mode finds too large
LongPattern == Fill(MAX_SEARCH_LEN + 1, "a")
OversizePattern == Nest((MAX_SEARCH_LEN * 4 - PatternRoom + 1) \div 2, <<"a">>)

MatchNotes ==
    {[ZeroNote EXCEPT !.id = 1, !.title = t, !.content = c, !.tags = g] :
        t \in {<<"a">>, <<"A", "b">>, <<"(">>},
        c \in {<<"c">>, <<"b", " ", "a">>, LongPattern},
        g \in {<<>>, <<"t">>}}

MatchPatterns ==
    Absent \cup Empty \cup {<<"a">>, <<"A">>, <<"a", "b">>, <<"t">>, <<"(">>,
                            Nest(1, <<"a">>), LongPattern, OversizePattern}

MatchOpts ==
    {[pattern |-> p, tags |-> NULL, case_insensitive |-> ci, regex_mode |-> r,
      exact_match |-> e, word_boundary |-> w, multiline_mode |-> m] :
        p \in MatchPatterns, ci \in BOOLEAN, r \in BOOLEAN, e \in BOOLEAN,
        w \in BOOLEAN, m \in BOOLEAN}

ListOpts ==
    {[NoOpts EXCEPT !.pattern = p, !.tags = g, !.regex_mode = r] :
        p \in Absent \cup {<<"a">>, <<"(">>, OversizePattern},
        g \in Absent \cup {<<"t">>},
        r \in BOOLEAN}

NextMatch ==
    \/ Load
    \/ (db.count < ListNotes
        /\ CallAdd({<<"a">>, <<"(">>}, Plain("c"), Absent \cup Plain("t")))
    \/ DoAdd
    \/ (db.count = 0 /\ MatchTags(MatchNoteTags, MatchSearchTags))
    \/ (db.count = 0 /\ MatchContent(MatchNotes, MatchOpts))
    \/ List(ListOpts, Envs)
    \/ Continue
    \/ Restart

SpecMatch == Init /\ [][NextMatch]_vars

----------------------------------------------------------------------------
(* cn_db_save, one step per call into the C library or the system.  Each
   such call succeeds or fails as the environment decides.  stdio buffers
   what fwrite is given: save.buf is what was written and has not reached
   the file; the library may flush any part of it at any time. *)

SaveSteps == {"save_open", "save_header", "save_records", "save_close", "save_rename"}

\* the prefixes of a sequence
Prefixes(s) == {SubSeq(s, 1, k) : k \in 0..Len(s)}

\* a bug cn_db_save could have: the data goes to the snapshot path itself
AppendFinal(dsk, items) ==
    [dsk EXCEPT !.final = FileOf(@.data \o items), !.tmp.data = @ \o items]

\* bytes reach the file behind the open FILE, the temp file
AppendTmp(dsk, items) == [dsk EXCEPT !.tmp.data = @ \o items]

\* fopen(tmp, "wb"): the temp file is created, or emptied if it was there
OpenTmp(dsk) == [dsk EXCEPT !.tmp = FileOf(<<>>)]

\* a bug cn_db_save could have: the temp file is left behind
RemoveNothing(dsk, rmOk) == dsk

\* (void)remove(tmp): the result is ignored
RemoveTmp(dsk, rmOk) == IF rmOk THEN [dsk EXCEPT !.tmp = NoFile] ELSE dsk

\* rename(tmp, path)
RenameTmp(dsk) == [final |-> dsk.tmp, tmp |-> NoFile]

\* cn_error_exit in cn_db_save after the step failed
SaveFatal(step, removed) ==
    /\ pc' = "dead"
    /\ call' = [call EXCEPT !.fatal = TRUE]
    /\ save' = [save EXCEPT !.failed = step, !.removed = removed, !.buf = <<>>]

\* a write failed: fclose(f) pushes out what it can, remove(tmp), exit
SaveWriteFailed(step, pending) ==
    \E part \in Prefixes(pending), rmOk \in BOOLEAN :
        /\ disk' = RemoveTmp(AppendTmp(disk, part), rmOk)
        /\ SaveFatal(step, IF rmOk THEN "yes" ELSE "failed")

\* cn_db_save() is entered: the path, then make_parent_dirs
SaveBegin ==
    /\ pc = "idle"
    /\ old' = db
    /\ \E ok \in BOOLEAN :
         /\ pc' = IF ok THEN "save_open" ELSE "dead"
         /\ call' = [Call("save", 0, NoArg, NoArg, NoArg) EXCEPT !.fatal = ~ok]
         /\ save' = [final |-> disk.final, tmp |-> disk.tmp,
                     failed |-> IF ok THEN "" ELSE "mkdir",
                     removed |-> "no", buf |-> <<>>]
    /\ UNCHANGED <<db, now, disk, adds, saved, issued, search, race, csv>>

\* fopen(tmp, "wb")
SaveOpen ==
    /\ pc = "save_open"
    /\ \/ /\ disk' = OpenTmp(disk)
          /\ pc' = "save_header"
          /\ UNCHANGED <<call, save, race, csv>>
       \/ /\ SaveFatal("open", "no")
          /\ UNCHANGED disk
    /\ UNCHANGED <<db, now, old, adds, saved, issued, search, race, csv>>

\* the two fwrite calls of the header
SaveHeader ==
    /\ pc = "save_header"
    /\ \/ /\ save' = [save EXCEPT !.buf = @ \o Header(db)]
          /\ pc' = "save_records"
          /\ UNCHANGED <<call, disk, race, csv>>
       \/ SaveWriteFailed("header", save.buf \o Header(db))
    /\ UNCHANGED <<db, now, old, adds, saved, issued, search, race, csv>>

\* the fwrite of the records, skipped for an empty store
SaveRecords ==
    /\ pc = "save_records"
    /\ \/ /\ save' = [save EXCEPT !.buf = IF db.count > 0 THEN @ \o Records(db) ELSE @]
          /\ pc' = "save_close"
          /\ UNCHANGED <<call, disk, race, csv>>
       \/ /\ db.count > 0
          /\ SaveWriteFailed("records", save.buf \o Records(db))
    /\ UNCHANGED <<db, now, old, adds, saved, issued, search, race, csv>>

\* stdio flushes a part of its buffer
SaveFlush ==
    /\ pc \in {"save_records", "save_close"}
    /\ \E k \in 1..Len(save.buf) :
         /\ disk' = AppendTmp(disk, SubSeq(save.buf, 1, k))
         /\ save' = [save EXCEPT !.buf = SubSeq(@, k + 1, Len(@))]
    /\ UNCHANGED <<db, now, pc, call, old, adds, saved, issued, search, race, csv>>

\* fclose(f)
SaveClose ==
    /\ pc = "save_close"
    /\ \/ /\ disk' = AppendTmp(disk, save.buf)
          /\ save' = [save EXCEPT !.buf = <<>>]
          /\ pc' = "save_rename"
          /\ UNCHANGED call
       \/ SaveWriteFailed("close", save.buf)
    /\ UNCHANGED <<db, now, old, adds, saved, issued, search, race, csv>>

\* rename(tmp, path); on success cn_db_save returns
SaveRename ==
    /\ pc = "save_rename"
    /\ \/ /\ disk' = RenameTmp(disk)
          /\ pc' = "ret"
          /\ call' = [call EXCEPT !.ret = 1]
          /\ saved' = db
          /\ UNCHANGED save
       \/ /\ \E rmOk \in BOOLEAN :
               /\ disk' = RemoveTmp(disk, rmOk)
               /\ SaveFatal("rename", IF rmOk THEN "yes" ELSE "failed")
          /\ UNCHANGED saved
    /\ UNCHANGED <<db, now, old, adds, issued, search, race, csv>>

\* the process is killed in the middle of cn_db_save
Crash ==
    /\ pc \in SaveSteps
    /\ pc' = "dead"
    /\ save' = [save EXCEPT !.failed = "crash", !.buf = <<>>]
    /\ UNCHANGED <<db, now, call, old, disk, adds, saved, issued, search, race, csv>>

\* main returns: exit runs cn_db_cleanup
Exit ==
    /\ pc = "idle"
    /\ pc' = "dead"
    /\ db' = cn_db_cleanup(db)
    /\ call' = Call("exit", 0, NoArg, NoArg, NoArg)
    /\ UNCHANGED <<now, old, disk, save, adds, saved, issued, search, race, csv>>

----------------------------------------------------------------------------
(* SpecDisk: processes that load, change the store, save and end. *)

\* the caller adds while next_id is one of the first DiskNotes ids
AddOne ==
    /\ db.next_id <= DiskNotes
    /\ CallAdd(Full(MAX_TITLE_LEN, "a"), Plain("c"), Absent)

NextDisk ==
    \/ Load
    \/ AddOne
    \/ CallEdit({2}, Absent, Absent, Plain("t"))
    \/ CallDelete({1})
    \/ DoAdd
    \/ DoEdit
    \/ DoDelete
    \/ Continue
    \/ Tick
    \/ SaveBegin
    \/ SaveOpen
    \/ SaveHeader
    \/ SaveRecords
    \/ SaveFlush
    \/ SaveClose
    \/ SaveRename
    \/ Crash
    \/ Exit
    \/ Restart

SpecDisk == Init /\ [][NextDisk]_vars

----------------------------------------------------------------------------
(* SpecList: processes that load, change the store, list it, save and end. *)

\* literal case-sensitive queries: of the environment only the allocations
\* of cn_note_match_tags bear on them
SomeOpts ==
    {[NoOpts EXCEPT !.pattern = p, !.tags = g] :
        p \in Absent \cup {<<"c">>}, g \in Absent \cup {<<"t">>}}
SomeEnvs == {e \in Envs : e.alloc /\ e.comp}

NextList ==
    \/ Load
    \/ (db.next_id <= ListNotes
        /\ CallAdd(Plain("a"), Plain("c"), Absent \cup Plain("t")))
    \/ CallEdit({1}, Absent, Absent, Plain("t"))
    \/ CallDelete({1})
    \/ DoAdd
    \/ DoEdit
    \/ DoDelete
    \/ List(SomeOpts, SomeEnvs)
    \/ Continue
    \/ SaveBegin
    \/ SaveOpen
    \/ SaveHeader
    \/ SaveRecords
    \/ SaveFlush
    \/ SaveClose
    \/ SaveRename
    \/ Restart

SpecList == Init /\ [][NextList]_vars

----------------------------------------------------------------------------
(* commands.c, utils.c: CSV export and import.  A CSV file is its text, a
   sequence of characters. *)

\* the room MAX_LINE_LENGTH leaves beside the three fields, and the size of
\* id_str in cn_cmd_import
LineRoom == 256
IdStrSize == 32
MAX_LINE_LENGTH == MAX_TITLE_LEN + MAX_CONTENT_LEN + MAX_TAGS_LEN + LineRoom

\* "ID,Title,Content,Tags,Created,Modified", the line cn_cmd_export writes
\* first, and "id,title,content"; cn_cmd_import looks for the latter and
\* for "ID,Title,Content", the first letters of the former
HeaderLine ==
    <<"I", "D", ",", "T", "i", "t", "l", "e", ",", "C", "o", "n", "t", "e",
      "n", "t", ",", "T", "a", "g", "s", ",", "C", "r", "e", "a", "t", "e",
      "d", ",", "M", "o", "d", "i", "f", "i", "e", "d">>
HeaderLower ==
    <<"i", "d", ",", "t", "i", "t", "l", "e", ",", "c", "o", "n", "t", "e",
      "n", "t">>

\* printf's %u and %ld
RECURSIVE Decimal(_)
Decimal(n) ==
    IF n < 0 THEN <<"-">> \o Decimal(0 - n)
    ELSE IF n < 10
    THEN <<<<"0", "1", "2", "3", "4", "5", "6", "7", "8", "9">>[n + 1]>>
    ELSE Decimal(n \div 10) \o Decimal(n % 10)

\* cn_cmd_export: the loop over a field, a double quote is written twice
RECURSIVE Escape(_)
Escape(s) ==
    IF s = <<>> THEN <<>>
    ELSE (IF Head(s) = "\"" THEN <<"\"", "\"">> ELSE <<Head(s)>>)
         \o Escape(Tail(s))

\* cn_cmd_export: the row of one note
ExportRow(note) ==
    Decimal(note.id) \o <<",", "\"">> \o Escape(note.title)
    \o <<"\"", ",", "\"">> \o Escape(note.content)
    \o <<"\"", ",", "\"">> \o Escape(note.tags)
    \o <<"\"", ",">> \o Decimal(note.created_at)
    \o <<",">> \o Decimal(note.modified_at) \o <<"\n">>

RECURSIVE ExportRows(_, _)
ExportRows(d, i) ==
    IF i > d.count THEN <<>> ELSE ExportRow(d.notes[i]) \o ExportRows(d, i + 1)

\* cn_cmd_export: the text of the file it writes
ExportText(d) == HeaderLine \o <<"\n">> \o ExportRows(d, 1)

\* the loops "while (*p && isspace(*p)) ++p": the first position from p on
\* that holds no whitespace
RECURSIVE SkipSpace(_, _)
SkipSpace(line, p) ==
    IF p <= Len(line) /\ IsSpace(line[p]) THEN SkipSpace(line, p + 1) ELSE p

\* "while (*p && *p != ',') ++p"
RECURSIVE SkipToComma(_, _)
SkipToComma(line, p) ==
    IF p <= Len(line) /\ line[p] # "," THEN SkipToComma(line, p + 1) ELSE p

\* "if (written + 1 < max_len) *out++ = c"
Put(out, c, max_len) == IF Len(out) + 1 < max_len THEN Append(out, c) ELSE out

\* the element of a set of one element: {e(x) : x \in {v}} has v worked
\* out once, however often e uses it
Only(S) == CHOOSE x \in S : TRUE

\* cn_parse_csv_field: the main loop from position p on, [out, p] when it
\* is left
RECURSIVE FieldLoop(_, _, _, _, _)
FieldLoop(line, p, out, in_quotes, max_len) ==
    IF p > Len(line) THEN [out |-> out, p |-> p]
    ELSE IF in_quotes
    THEN IF line[p] = "\""
         THEN IF p + 1 <= Len(line) /\ line[p + 1] = "\""
              THEN Only({FieldLoop(line, p + 2, o, TRUE, max_len) :
                            o \in {Put(out, "\"", max_len)}})
              ELSE [out |-> out, p |-> p + 1]
         ELSE Only({FieldLoop(line, p + 1, o, TRUE, max_len) :
                       o \in {Put(out, line[p], max_len)}})
    ELSE IF line[p] = ","
         THEN [out |-> out, p |-> p]
         ELSE Only({FieldLoop(line, p + 1, o, FALSE, max_len) :
                       o \in {Put(out, line[p], max_len)}})

\* cn_parse_csv_field(&pos, output, max_len) on the line the caller holds:
\* [ok, out, pos].  pos and output are never NULL here.
cn_parse_csv_field(line, pos, max_len) ==
    IF max_len = 0 THEN [ok |-> FALSE, out |-> <<>>, pos |-> pos]
    ELSE Only({[ok |-> TRUE, out |-> f.out,
                pos |-> SkipSpace(line,
                                  IF SkipToComma(line, f.p) <= Len(line)
                                  THEN SkipToComma(line, f.p) + 1
                                  ELSE SkipToComma(line, f.p))] :
                 f \in {LET p == SkipSpace(line, pos)
                            quoted == p <= Len(line) /\ line[p] = "\""
                        IN  FieldLoop(line, IF quoted THEN p + 1 ELSE p, <<>>,
                                      quoted, max_len)}})

\* fgets(linebuf, MAX_LINE_LENGTH, f): the characters read from text, n of
\* them read so far
RECURSIVE fgets(_, _)
fgets(text, n) ==
    IF n = Len(text) \/ n = MAX_LINE_LENGTH - 1 THEN SubSeq(text, 1, n)
    ELSE IF text[n + 1] = "\n" THEN SubSeq(text, 1, n + 1)
    ELSE fgets(text, n + 1)

\* "while ((ch = fgetc(f)) != '\n' && ch != EOF)": what is left of text
RECURSIVE SkipLine(_)
SkipLine(text) ==
    IF text = <<>> THEN <<>>
    ELSE IF Head(text) = "\n" THEN Tail(text)
    ELSE SkipLine(Tail(text))

\* cn_cmd_import: the test that skips the header
IsHeader(linebuf, line_num) ==
    line_num = 1
    /\ (\/ strstr(linebuf, SubSeq(HeaderLine, 1, Len(HeaderLower))) # 0
        \/ strstr(linebuf, HeaderLower) # 0)

\* cn_cmd_import: the fields of one line, [ok, title, content, tags]
ParseRow(line) ==
    Only({Only({Only({
        [ok |-> id_str.ok /\ title.ok /\ content.ok,
         title |-> title.out, content |-> content.out,
         tags |-> cn_parse_csv_field(line, content.pos, MAX_TAGS_LEN).out] :
        content \in {cn_parse_csv_field(line, title.pos, MAX_CONTENT_LEN)}}) :
        title \in {cn_parse_csv_field(line, id_str.pos, MAX_TITLE_LEN)}}) :
        id_str \in {cn_parse_csv_field(line, 1, IdStrSize)}})

\* cn_cmd_import: the body of the loop after the header test, for the line
\* without its line end: [db, imported, errors, fatal]
ImportLine(d, line, imported, errors, t, allocOk) ==
    IF line = <<>>
    THEN [db |-> d, imported |-> imported, errors |-> errors, fatal |-> FALSE]
    ELSE Only({
        IF ~row.ok \/ row.title = <<>> \/ row.content = <<>>
        THEN [db |-> d, imported |-> imported, errors |-> errors + 1,
              fatal |-> FALSE]
        ELSE Only({[db |-> r.db,
                    imported |-> IF r.ret # 0 THEN imported + 1 ELSE imported,
                    errors |-> IF r.fatal \/ r.ret # 0 THEN errors
                               ELSE errors + 1,
                    fatal |-> r.fatal] :
                     r \in {cn_note_add(d, row.title, row.content,
                                        IF row.tags # <<>> THEN row.tags
                                        ELSE NULL,
                                        t, allocOk)}}) :
        row \in {ParseRow(line)}})

\* cn_cmd_import: the loop "while (fgets(linebuf, MAX_LINE_LENGTH, f))" over
\* what is left of the file, at time t: [db, imported, errors, fatal]
RECURSIVE ImportLoop(_, _, _, _, _, _, _)
ImportLoop(d, text, line_num, imported, errors, t, allocOk) ==
    IF text = <<>>
    THEN [db |-> d, imported |-> imported, errors |-> errors, fatal |-> FALSE]
    ELSE Only({
        IF Len(linebuf) = MAX_LINE_LENGTH - 1 /\ linebuf[Len(linebuf)] # "\n"
        THEN Only({ImportLoop(d, rest, line_num + 1, imported, errors + 1, t,
                              allocOk) :
                     rest \in {SkipLine(SubSeq(text, Len(linebuf) + 1,
                                               Len(text)))}})
        ELSE Only({
            IF r.fatal THEN r
            ELSE ImportLoop(r.db, rest, line_num + 1, r.imported, r.errors, t,
                            allocOk) :
            rest \in {SubSeq(text, Len(linebuf) + 1, Len(text))},
            r \in {IF IsHeader(linebuf, line_num + 1)
                   THEN [db |-> d, imported |-> imported, errors |-> errors,
                         fatal |-> FALSE]
                   ELSE ImportLine(d,
                                   IF linebuf[Len(linebuf)] = "\n"
                                   THEN SubSeq(linebuf, 1, Len(linebuf) - 1)
                                   ELSE linebuf,
                                   imported, errors, t, allocOk)}}) :
        linebuf \in {fgets(text, 0)}})

\* cn_cmd_import up to its fclose: fopen, the reset of a non-merging import,
\* the line buffer (bufOk: malloc gives it), the loop
cn_cmd_import(d, file, merge_mode, t, allocOk, bufOk) ==
    IF ~file.exists
    THEN [db |-> d, imported |-> 0, errors |-> 0, fatal |-> TRUE]
    ELSE LET init == IF merge_mode THEN [db |-> d, fatal |-> FALSE]
                     ELSE cn_db_init(cn_db_cleanup(d), allocOk)
         IN  IF init.fatal \/ ~bufOk
             THEN [db |-> init.db, imported |-> 0, errors |-> 0,
                   fatal |-> TRUE]
             ELSE ImportLoop(init.db, file.data, 0, 0, 0, t, allocOk)

\* cn_cmd_export: fopen(filename, "w"), the header, a row per live note
Export ==
    /\ pc = "idle"
    /\ old' = db
    /\ \E openOk \in BOOLEAN, writeOk \in BOOLEAN :
         IF ~openOk
         THEN /\ pc' = "dead"
              /\ call' = [Call("export", 0, NoArg, NoArg, NoArg) EXCEPT
                            !.fatal = TRUE]
              /\ csv' = [csv EXCEPT !.op = "export"]
         ELSE IF ~writeOk
         THEN /\ pc' = "dead"
              /\ call' = [Call("export", 0, NoArg, NoArg, NoArg) EXCEPT
                            !.fatal = TRUE]
              /\ \E part \in Prefixes(ExportText(db)) \ {ExportText(db)} :
                   csv' = [csv EXCEPT !.op = "export", !.file = FileOf(part)]
         ELSE /\ pc' = "ret"
              /\ call' = Call("export", 0, NoArg, NoArg, NoArg)
              /\ csv' = [csv EXCEPT !.op = "export",
                                    !.file = FileOf(ExportText(db))]
    /\ UNCHANGED <<db, now, disk, save, adds, saved, issued, search, race>>

\* cn_cmd_import with merge_mode from M: the import, then cn_db_save() is
\* entered as in SaveBegin
Import(M) ==
    /\ pc = "idle"
    /\ \E merge_mode \in M, allocOk \in BOOLEAN, bufOk \in BOOLEAN,
          ok \in BOOLEAN :
         LET r == cn_cmd_import(db, csv.file, merge_mode, now, allocOk, bufOk)
             first == IF merge_mode THEN db.count + 1 ELSE 1
             base == IF merge_mode THEN adds ELSE 0
         IN  /\ db' = r.db
             /\ csv' = [csv EXCEPT !.op = "import", !.merge = merge_mode,
                                   !.before = db, !.imported = r.imported,
                                   !.errors = r.errors, !.fatal = r.fatal]
             /\ adds' = IF base >= 0 THEN base + r.imported ELSE base
             /\ issued' = issued
                          \cup {r.db.notes[i].id : i \in first..r.db.count}
             /\ IF r.fatal
                THEN /\ pc' = "dead"
                     /\ call' = [Call("import", 0, NoArg, NoArg, NoArg) EXCEPT
                                   !.fatal = TRUE]
                     /\ old' = db
                     /\ UNCHANGED save
                ELSE /\ pc' = IF ok THEN "save_open" ELSE "dead"
                     /\ call' = [Call("save", 0, NoArg, NoArg, NoArg) EXCEPT
                                   !.fatal = ~ok]
                     /\ old' = r.db
                     /\ save' = [final |-> disk.final, tmp |-> disk.tmp,
                                 failed |-> IF ok THEN "" ELSE "mkdir",
                                 removed |-> "no", buf |-> <<>>]
    /\ UNCHANGED <<now, disk, saved, search, race>>

\* somebody puts a CSV file of F where none is
WriteCsv(F) ==
    /\ pc = "idle"
    /\ ~csv.file.exists
    /\ \E text \in F : csv' = [csv EXCEPT !.file = FileOf(text)]
    /\ UNCHANGED <<db, now, pc, call, old, disk, save, adds, saved, issued,
                   search, race>>

----------------------------------------------------------------------------
(* SpecCsv: a process that loads, adds notes, exports and imports. *)

\* the caller adds while the store holds fewer than CsvNotes notes: content
\* with a double quote and a comma, and content of two lines
CsvNotes == 2

\* rows: a row of two fields, a row with an empty title, a row with all it
\* needs
ShortRow == <<"1", ",", "\"", "a", "\"", "\n">>
NoTitleRow == <<"1", ",", "\"", "\"", ",", "\"", "c", "\"", "\n">>
GoodRow == <<"7", ",", "\"", "a", "\"", ",", "\"", "c", "\"", "\n">>

\* files: a first line (none, the header as exported, in small letters, or
\* "Id,Title,Content", a spelling neither strstr of cn_cmd_import finds),
\* then no row or two
CsvFiles ==
    {h \o b :
        h \in {<<>>, HeaderLine \o <<"\n">>, HeaderLower \o <<"\n">>,
               <<"I", "d">> \o SubSeq(HeaderLine, 3, Len(HeaderLower))
                   \o <<"\n">>},
        b \in {<<>>, <<"\n">> \o GoodRow, ShortRow \o GoodRow,
               NoTitleRow \o GoodRow, GoodRow \o GoodRow}}

NextCsv ==
    \/ Load
    \/ (db.count < CsvNotes /\ ~disk.final.exists
        /\ (\/ CallAdd(Plain("a"), {<<"\"", ",">>}, Plain("t"))
            \/ CallAdd(Plain("b"), {<<"c", "\n", "d">>}, Absent)))
    \/ DoAdd
    \/ Continue
    \/ WriteCsv(CsvFiles)
    \/ Export
    \/ Import(BOOLEAN)
    \/ SaveOpen
    \/ SaveHeader
    \/ SaveRecords
    \/ SaveFlush
    \/ SaveClose
    \/ SaveRename

SpecCsv == Init /\ [][NextCsv]_vars

----------------------------------------------------------------------------
(* SpecRace: two processes that each load the snapshot, add notes and save,
   with the steps of their cn_db_save interleaved in every way.  Every call
   succeeds unless the files make it fail; the failures of the environment
   are those of SpecDisk. *)

\* a process adds while its store holds fewer than RaceNotes notes
RaceNotes == 3

others == <<db, now, pc, call, old, disk, save, adds, saved, issued, search,
            csv>>

\* the file a path names
FileAt(k) == IF k = 0 THEN NoFile ELSE FileOf(race.ino[k])

\* what a read finds where nothing was written: the zero bytes of a hole
Hole(k) == IF k <= 2 THEN 0 ELSE ZeroNote

\* write(): items written at the offset pos of a file holding data
WriteAt(data, pos, items) ==
    LET end == pos + Len(items)
        n == IF Len(data) > end THEN Len(data) ELSE end
    IN  [k \in 1..n |-> IF pos < k /\ k <= end THEN items[k - pos]
                        ELSE IF k <= Len(data) THEN data[k]
                        ELSE Hole(k)]

\* the title a process gives its notes
TitleOf(p) == IF p = 1 THEN <<"a">> ELSE <<"b">>

Proc(p) == race.proc[p]

\* main(): cn_db_load() of the file at the snapshot path
RaceLoad(p) ==
    /\ Proc(p).pc = "boot"
    /\ \E allocOk \in BOOLEAN :
         LET r == cn_db_load(DbZero, FileAt(race.final), allocOk, allocOk)
         IN  race' = [race EXCEPT
                        !.proc[p].db = r.db,
                        !.proc[p].pc = IF r.fatal THEN "dead" ELSE "loaded"]
    /\ UNCHANGED others

\* cn_cmd_add: cn_note_add, before the save
RaceAdd(p) ==
    /\ Proc(p).pc = "loaded"
    /\ Proc(p).db.count < RaceNotes
    /\ LET r == cn_note_add(Proc(p).db, TitleOf(p), <<"c">>, NULL, now, TRUE)
       IN  race' = [race EXCEPT
                      !.proc[p].db = r.db,
                      !.proc[p].pc = IF r.fatal THEN "dead" ELSE "added"]
    /\ UNCHANGED others

\* cn_cmd_import: one more cn_note_add of the same process before its save
RaceAddMore(p) ==
    /\ Proc(p).pc = "added"
    /\ Proc(p).db.count < RaceNotes
    /\ LET r == cn_note_add(Proc(p).db, TitleOf(p), <<"c">>, NULL, now, TRUE)
       IN  race' = [race EXCEPT
                      !.proc[p].db = r.db,
                      !.proc[p].pc = IF r.fatal THEN "dead" ELSE "added"]
    /\ UNCHANGED others

\* cn_db_save: fopen(tmp, "wb") creates the file or truncates the one that
\* is there, whoever made it
RaceOpen(p) ==
    /\ Proc(p).pc = "added"
    /\ LET k == IF race.tmp = 0 THEN Len(race.ino) + 1 ELSE race.tmp
       IN  race' = [race EXCEPT
                      !.ino = IF race.tmp = 0 THEN Append(@, <<>>)
                              ELSE [@ EXCEPT ![k] = <<>>],
                      !.tmp = k,
                      !.proc[p].fd = k,
                      !.proc[p].pos = 0,
                      !.proc[p].buf = <<>>,
                      !.proc[p].pc = "save_header",
                      !.snaps = @ \cup {Snapshot(Proc(p).db)}]
    /\ UNCHANGED others

\* the two fwrite calls of the header
RaceHeader(p) ==
    /\ Proc(p).pc = "save_header"
    /\ race' = [race EXCEPT !.proc[p].buf = @ \o Header(Proc(p).db),
                            !.proc[p].pc = "save_records"]
    /\ UNCHANGED others

\* fwrite of the records
RaceRecords(p) ==
    /\ Proc(p).pc = "save_records"
    /\ race' = [race EXCEPT !.proc[p].buf = @ \o Records(Proc(p).db),
                            !.proc[p].pc = "save_close"]
    /\ UNCHANGED others

\* stdio writes its buffer to the descriptor, at the descriptor's offset
RaceFlush(p) ==
    /\ Proc(p).pc \in {"save_records", "save_close"}
    /\ Proc(p).buf # <<>>
    /\ race' = [race EXCEPT
                  !.ino[Proc(p).fd] = WriteAt(@, Proc(p).pos, Proc(p).buf),
                  !.proc[p].pos = @ + Len(Proc(p).buf),
                  !.proc[p].buf = <<>>]
    /\ UNCHANGED others

\* fclose(f): what is left in the buffer is written
RaceClose(p) ==
    /\ Proc(p).pc = "save_close"
    /\ race' = [race EXCEPT
                  !.ino[Proc(p).fd] = WriteAt(@, Proc(p).pos, Proc(p).buf),
                  !.proc[p].pos = @ + Len(Proc(p).buf),
                  !.proc[p].buf = <<>>,
                  !.proc[p].pc = "save_rename"]
    /\ UNCHANGED others

\* rename(tmp, path): it fails when no file is at tmp; then remove(tmp),
\* which finds nothing, and cn_error_exit
RaceRename(p) ==
    /\ Proc(p).pc = "save_rename"
    /\ race' = IF race.tmp # 0
               THEN [race EXCEPT !.final = race.tmp, !.tmp = 0, !.last = p,
                                 !.proc[p].pc = "done"]
               ELSE [race EXCEPT !.proc[p].pc = "dead"]
    /\ UNCHANGED others

NextRace ==
    \E p \in Procs :
        \/ RaceLoad(p)
        \/ RaceAdd(p)
        \/ RaceAddMore(p)
        \/ RaceOpen(p)
        \/ RaceHeader(p)
        \/ RaceRecords(p)
        \/ RaceFlush(p)
        \/ RaceClose(p)
        \/ RaceRename(p)

SpecRace == Init /\ [][NextRace]_vars

----------------------------------------------------------------------------
(* What the claims speak of. *)

\* the call op returned to its caller
Returned(op) == pc = "ret" /\ call.op = op

\* the call op returned or ended the process
Ended(op) == pc \in {"ret", "dead"} /\ call.op = op

\* t is s without its leading and trailing whitespace
IsTrimOf(t, s) ==
    \E i, j \in 0..Len(s) :
        /\ i + j <= Len(s)
        /\ t = SubSeq(s, i + 1, Len(s) - j)
        /\ \A k \in 1..i : IsSpace(s[k])
        /\ \A k \in (Len(s) - j + 1)..Len(s) : IsSpace(s[k])
        /\ (t # <<>> => ~IsSpace(t[1]) /\ ~IsSpace(t[Len(t)]))

\* the live notes of d at positions 1..n are those of e, unchanged
SameNotes(d, e, n) == \A i \in 1..n : d.notes[i] = e.notes[i]

\* C6: an add that succeeds, growing the array or not, keeps every note that
\* was there in its slot, leaves the slots behind the new note zeroed and
\* raises count by one; after N successful adds to an empty store count is N.
C6_GrowthPreservesData ==
    (Returned("add") /\ call.ret # 0) =>
        /\ SameNotes(db, old, old.count)
        /\ \A i \in (old.count + 2)..db.capacity : db.notes[i] = ZeroNote
        /\ Len(db.notes) = db.capacity
        /\ db.count = old.count + 1
        /\ db.count <= MAX_NOTES
        /\ (adds >= 0 => db.count = adds)

\* an add that had to grow a store of at least two notes
C6_Witness ==
    /\ Returned("add") /\ call.ret # 0
    /\ old.count = old.capacity /\ old.count >= 2
    /\ db.capacity > old.capacity
    /\ adds = db.count

\* C7: a successful add returns the old next_id, steps next_id (1 after the
\* largest id, never 0), appends the trimmed note stamped now, raises count by
\* one and leaves the other notes alone.
C7_AddEffect ==
    (Returned("add") /\ call.ret # 0) =>
        /\ call.ret = old.next_id
        /\ db.next_id = (IF old.next_id = UINT_MOD - 1 THEN 1 ELSE old.next_id + 1)
        /\ db.next_id # 0
        /\ db.count = old.count + 1
        /\ LET note == db.notes[db.count]
           IN  /\ note.id = call.ret
               /\ IsTrimOf(note.title, call.title)
               /\ IsTrimOf(note.content, call.content)
               /\ IF call.tags = NULL THEN note.tags = <<>>
                  ELSE IsTrimOf(note.tags, call.tags)
               /\ note.created_at = now /\ note.modified_at = now
        /\ SameNotes(db, old, old.count)

\* an add whose title was trimmed and whose id was the largest one, so that
\* next_id wrapped
C7_Witness ==
    /\ Returned("add") /\ call.ret = UINT_MOD - 1
    /\ db.next_id = 1
    /\ db.notes[db.count].title # call.title
    /\ db.notes[db.count].tags # <<>>
    /\ old.count >= 1

\* the arguments C8 names
C8_BadArgs ==
    \/ call.title \in {NULL, <<>>} \/ call.content \in {NULL, <<>>}
    \/ Len(call.title) > MAX_TITLE_LEN - 1
    \/ Len(call.content) > MAX_CONTENT_LEN - 1
    \/ (call.tags # NULL /\ Len(call.tags) > MAX_TAGS_LEN - 1)

\* C8: an add with an absent, empty or overlong title or content, or with
\* overlong tags, returns 0 and leaves the whole store as it was.
C8_AddRejects ==
    (Ended("add") /\ C8_BadArgs) =>
        /\ pc = "ret" /\ call.ret = 0 /\ ~call.fatal
        /\ db = old

\* an add into a store that holds a note, rejected for its tags alone
C8_Witness ==
    /\ Returned("add") /\ call.ret = 0
    /\ ~AddArgsInvalidNoTags(call.title, call.content, call.tags)
    /\ Len(call.tags) = MAX_TAGS_LEN
    /\ old.count >= 1

\* the live notes of d
Live(d) == {d.notes[i] : i \in 1..d.count}

\* some live note of d has this id
IsLive(d, id) == \E i \in 1..d.count : d.notes[i].id = id

\* how many live slots of d hold the note n
Copies(d, n) == Cardinality({i \in 1..d.count : d.notes[i] = n})

\* C4: while fewer than 2^UINT_BITS - 1 adds were made to the store that
\* started empty, no two live notes share an id.
C4_UniqueIds ==
    (adds >= 0 /\ adds < UINT_MOD - 1) =>
        \A i, j \in 1..db.count : i # j => db.notes[i].id # db.notes[j].id

\* two live notes after two adds
C4_Witness ==
    /\ Returned("add") /\ call.ret # 0
    /\ adds = UINT_MOD - 2
    /\ db.count = 2

\* C5 as claimed: deleting the id of a live note returns success, lowers
\* count by one, leaves no live note with that id and keeps every other live
\* note; next_id is unchanged.
C5_AsClaimed ==
    (Returned("delete") /\ IsLive(old, call.id)) =>
        /\ call.ret = 1
        /\ db.count = old.count - 1
        /\ ~IsLive(db, call.id)
        /\ \A n \in Live(old) : n.id # call.id => n \in Live(db)
        /\ db.next_id = old.next_id

\* What cn_note_delete does in every case, after a wrap of next_id too: it
\* removes exactly one note, one that has this id; count drops by one, every
\* other live note (a second note with the same id too) is still there
\* unchanged, next_id is unchanged; where the ids were unique the id is gone.
C5_DeleteRemovesOne ==
    (Returned("delete") /\ IsLive(old, call.id)) =>
        /\ call.ret = 1
        /\ db.count = old.count - 1
        /\ \E gone \in Live(old) :
             /\ gone.id = call.id
             /\ \A n \in Live(old) \cup Live(db) :
                  Copies(db, n) = Copies(old, n) - (IF n = gone THEN 1 ELSE 0)
        /\ db.next_id = old.next_id
        /\ ((\A i, j \in 1..old.count : i # j => old.notes[i].id # old.notes[j].id)
              => ~IsLive(db, call.id))

\* a delete of a note that was not in the last slot of a full store
C5_Witness ==
    /\ Returned("delete") /\ call.ret = 1
    /\ old.count = MAX_NOTES
    /\ old.notes[old.count].id # call.id
    /\ db.count = old.count - 1

\* an argument of the edit exceeds its bound
C9_OverLong ==
    \/ (call.title # NULL /\ Len(call.title) > MAX_TITLE_LEN - 1)
    \/ (call.content # NULL /\ Len(call.content) > MAX_CONTENT_LEN - 1)
    \/ (call.tags # NULL /\ Len(call.tags) > MAX_TAGS_LEN - 1)

\* C9: an edit of a live note that fails over an overlong argument leaves the
\* store, and so the note's title, content, tags and modified_at, as before.
C9_NoPartialUpdate ==
    (Returned("edit") /\ call.ret = 0 /\ IsLive(old, call.id) /\ C9_OverLong) =>
        \A i \in 1..old.count :
            /\ db.notes[i].title = old.notes[i].title
            /\ db.notes[i].content = old.notes[i].content
            /\ db.notes[i].tags = old.notes[i].tags
            /\ db.notes[i].modified_at = old.notes[i].modified_at

\* C10: a successful edit changes one note that has the id: an absent field,
\* an empty title and an empty content leave the field, empty tags clear the
\* tags, any other value is stored trimmed; the note's id and created_at, the
\* other notes, count, capacity and next_id stay.
C10_EditEffect ==
    (Returned("edit") /\ call.ret = 1) =>
        /\ db.count = old.count /\ db.capacity = old.capacity
        /\ db.next_id = old.next_id
        /\ \E i \in 1..old.count :
             LET o == old.notes[i]
                 n == db.notes[i]
             IN  /\ o.id = call.id /\ n.id = o.id
                 /\ n.created_at = o.created_at
                 /\ IF call.title \in {NULL, <<>>} THEN n.title = o.title
                    ELSE IsTrimOf(n.title, call.title)
                 /\ IF call.content \in {NULL, <<>>} THEN n.content = o.content
                    ELSE IsTrimOf(n.content, call.content)
                 /\ IF call.tags = NULL THEN n.tags = o.tags
                    ELSE IF call.tags = <<>> THEN n.tags = <<>>
                    ELSE IsTrimOf(n.tags, call.tags)
                 /\ \A k \in 1..old.count : k # i => db.notes[k] = old.notes[k]

\* an edit of the first of two notes that cleared its tags, skipped the empty
\* title and stored a trimmed content
C10_Witness ==
    /\ Returned("edit") /\ call.ret = 1
    /\ old.count = 2 /\ old.notes[1].id = call.id
    /\ call.title = <<>> /\ call.tags = <<>> /\ old.notes[1].tags # <<>>
    /\ call.content \notin {NULL, <<>>}
    /\ db.notes[1].content # old.notes[1].content
    /\ db.notes[1].content # call.content

\* file is a complete snapshot of the store d: the header, then one record
\* for each live note, in order, and nothing else
IsSnapshotOf(file, d) ==
    /\ file.exists
    /\ Len(file.data) = 2 + d.count
    /\ file.data[1] = d.count
    /\ file.data[2] = d.next_id
    /\ \A i \in 1..d.count : file.data[2 + i] = d.notes[i]

\* cn_db_save is running, has returned, or ended the process
InSave == call.op = "save"

\* cn_db_save ended the process over a step that failed
SaveFailed == pc = "dead" /\ InSave /\ save.failed \notin {"", "crash"}

C1_EitherOldOrNew ==
    InSave => (disk.final = save.final \/ IsSnapshotOf(disk.final, db))

C1_OnlyByRename ==
    disk'.final # disk.final =>
        /\ pc = "save_rename" /\ pc' = "ret"
        /\ save.buf = <<>>
        /\ IsSnapshotOf(disk.tmp, db)
        /\ disk'.final = disk.tmp

\* C1: from the entry of cn_db_save on, whatever step fails and wherever the
\* process is killed, the file at the snapshot path is the file that was
\* there before (or still absent) or a complete snapshot of the store; the
\* path changes only by the rename of the complete, closed temp file.
C1_AtomicReplace == [](C1_EitherOldOrNew) /\ [][C1_OnlyByRename]_vars

\* the process was killed with a part of the new snapshot in the temp file,
\* next to an older snapshot of another store
C1_Witness ==
    /\ pc = "dead" /\ InSave /\ save.failed = "crash"
    /\ disk.tmp.exists /\ Len(disk.tmp.data) \in 1..(1 + db.count)
    /\ disk.final.exists /\ ~IsSnapshotOf(disk.final, db)

\* C2: a process that starts and loads the snapshot a save left gets a store
\* with the count and next_id of the saved one and, slot for slot, its notes
\* with all their fields.
C2_RoundTrip ==
    (Returned("load") /\ disk.final.exists) =>
        /\ db.count = saved.count
        /\ db.next_id = saved.next_id
        /\ \A i \in 1..saved.count : db.notes[i] = saved.notes[i]
        /\ db.capacity >= db.count /\ Len(db.notes) = db.capacity

\* a load of a store that had lost a note and held an edited one
C2_Witness ==
    /\ Returned("load") /\ disk.final.exists
    /\ db.count >= 1 /\ db.next_id > db.count + 1
    /\ \E i \in 1..db.count :
         /\ db.notes[i].tags # <<>>
         /\ Len(db.notes[i].title) = MAX_TITLE_LEN - 1
         /\ db.notes[i].modified_at > db.notes[i].created_at

\* a load of the snapshot of a store emptied by deletes
C2_WitnessEmpty ==
    /\ Returned("load") /\ disk.final.exists
    /\ db.count = 0 /\ db.next_id > 1

C3_WitnessStale ==
    /\ SaveFailed /\ save.failed = "open"
    /\ disk.tmp.exists

----------------------------------------------------------------------------
(* Calls with an id that names no note. *)

\* the id of the call is 0 or the id of no live note of the store before
BadId == call.id = 0 \/ ~IsLive(old, call.id)

\* C11: cn_note_edit and cn_note_delete called with id 0 or with an id no
\* live note has return 0 and leave the store as it was: count, next_id,
\* capacity and every slot.
C11_BadIdNoChange ==
    ((Returned("edit") \/ Returned("delete")) /\ BadId) =>
        /\ call.ret = 0
        /\ db = old

\* a delete of an id that was deleted before, on a store of two notes
C11_Witness ==
    /\ Returned("delete") /\ call.id # 0 /\ call.id < old.next_id
    /\ ~IsLive(old, call.id)
    /\ old.count >= 2

\* an edit with id 0 and one with an id not yet given out
C11_WitnessEdit ==
    /\ Returned("edit") /\ old.count >= 2
    /\ call.title # NULL /\ call.content # NULL
    /\ (call.id = 0 \/ (call.id >= old.next_id /\ ~IsLive(old, call.id)))
    /\ call.ret = 0

----------------------------------------------------------------------------
(* Loading what lies at the snapshot path. *)

\* the cases of a missing or malformed snapshot: no file, a file too short
\* for the header, a header out of range, fewer records than the header says
Malformed(file) ==
    \/ ~file.exists
    \/ Len(file.data) < 2
    \/ file.data[1] > MAX_NOTES
    \/ file.data[2] = 0
    \/ Len(file.data) - 2 < file.data[1]

\* the store cn_db_init makes
IsEmptyStore(d) ==
    /\ d.count = 0 /\ d.next_id = 1
    /\ d.capacity = INITIAL_CAPACITY
    /\ d.notes = [i \in 1..INITIAL_CAPACITY |-> ZeroNote]

\* C12 as claimed: on a missing or malformed snapshot cn_db_load never ends
\* the process and yields an empty store with count 0 and next_id 1.
C12_AsClaimed ==
    (Ended("load") /\ Malformed(disk.final)) =>
        /\ ~call.fatal
        /\ db.count = 0 /\ db.next_id = 1

\* C12, amended: on a missing or malformed snapshot cn_db_load yields the
\* empty store of cn_db_init (count 0, next_id 1), whatever the store of the
\* file would have been; it ends the process only when calloc gave no memory
\* for that store (db.notes is still NULL then).
C12_LoadRecovers ==
    (Ended("load") /\ Malformed(disk.final)) =>
        IF call.fatal THEN pc = "dead" /\ db.notes = <<>>
        ELSE pc = "ret" /\ IsEmptyStore(db)

\* a load of a file that holds fewer records than its header says
C12_Witness ==
    /\ Returned("load")
    /\ disk.final.exists /\ Len(disk.final.data) > 2
    /\ disk.final.data[1] <= MAX_NOTES /\ disk.final.data[2] > 1
    /\ Len(disk.final.data) - 2 < disk.final.data[1]
    /\ IsEmptyStore(db)

\* a load of a file cut in the header
C12_WitnessShort ==
    /\ Returned("load")
    /\ disk.final.exists /\ Len(disk.final.data) = 1
    /\ IsEmptyStore(db)

\* every live note of the store has an id other than 0
LiveIdsNonZero == \A i \in 1..db.count : db.notes[i].id # 0

\* the records cn_db_load takes from the file all have an id other than 0
NoZeroIdRecord(file) ==
    Malformed(file) \/ \A i \in 1..file.data[1] : file.data[2 + i].id # 0

\* C15 as claimed: after add, edit, delete and the load of any file that
\* cn_db_load accepts, every live note has id # 0.
C15_AsClaimed == LiveIdsNonZero

\* C15, amended: cn_db_load keeps the id of every record it takes, 0 too;
\* when the file loaded holds no record with id 0 (as every snapshot written
\* from such a store), every live note has id # 0 after any adds, edits and
\* deletes, through the wrap of next_id too.
C15_NonZeroIds ==
    /\ (Returned("load") /\ ~Malformed(disk.final)) =>
          \A i \in 1..db.count : db.notes[i].id = disk.final.data[2 + i].id
    /\ NoZeroIdRecord(disk.final) => LiveIdsNonZero

\* an add to a loaded store whose next_id was the largest id: next_id wraps
C15_Witness ==
    /\ Returned("add") /\ call.ret = UINT_MOD - 1
    /\ adds = -1 /\ old.count >= 1
    /\ ~Malformed(disk.final) /\ NoZeroIdRecord(disk.final)
    /\ db.next_id = 1

\* a load that kept a record with id 0
C15_WitnessZero ==
    /\ Returned("load") /\ db.count = 2
    /\ db.notes[1].id # 0 /\ db.notes[2].id = 0

----------------------------------------------------------------------------
(* Ids over the processes that share a snapshot.  In SpecDisk next_id stays
   below the wrap. *)

\* cn_note_add is about to return an id
AddReturns == pc = "call" /\ call.op = "add" /\ pc' = "ret" /\ call'.ret # 0

Running == pc \notin {"boot", "dead"}

C13_AboveSaved ==
    (Returned("add") /\ call.ret # 0) =>
        /\ call.ret >= saved.next_id
        /\ call.ret < db.next_id

C13_NeverBack ==
    /\ saved'.next_id >= saved.next_id
    /\ (Running /\ Running') => db'.next_id >= db.next_id
    /\ (pc = "save_rename" /\ pc' = "ret") => saved'.next_id = db.next_id

----------------------------------------------------------------------------
(* Timestamps.  The clock of the model never runs backwards. *)

\* C16: created_at is set by the add that creates the note and no call
\* changes it afterwards (an add leaves the notes there as they are and
\* stamps the new one with the time of the call, an edit keeps created_at in
\* every slot, a delete keeps every remaining note whole), and every live
\* note has modified_at >= created_at.
C16_Timestamps ==
    /\ \A i \in 1..db.count : db.notes[i].modified_at >= db.notes[i].created_at
    /\ (Returned("add") /\ call.ret # 0) =>
          /\ SameNotes(old, db, old.count)
          /\ db.notes[db.count].created_at = now
    /\ Returned("edit") =>
          \A i \in 1..db.count :
              /\ db.notes[i].created_at = old.notes[i].created_at
              /\ db.notes[i].id = old.notes[i].id
    /\ Returned("delete") => Live(db) \subseteq Live(old)

\* an edit made later than the add of the note, which is not the only note
C16_Witness ==
    /\ Returned("edit") /\ call.ret = 1 /\ db.count >= 2
    /\ \E i \in 1..db.count :
         /\ db.notes[i].id = call.id
         /\ old.notes[i].modified_at = old.notes[i].created_at
         /\ db.notes[i].modified_at = now
         /\ db.notes[i].created_at < now

----------------------------------------------------------------------------
(* Required fields. *)

\* C14: in every state reached through successful adds and edits, every
\* stored note has a non-empty title and a non-empty content, as stored
\* (after the trim).
C14_NonEmptyFields ==
    \A i \in 1..db.count :
        db.notes[i].title # <<>> /\ db.notes[i].content # <<>>


----------------------------------------------------------------------------
(* Tag matching *)

\* needle occurs in haystack as a run of consecutive characters
Occurs(needle, haystack) ==
    \E i \in 1..(Len(haystack) - Len(needle) + 1) :
        SubSeq(haystack, i, i + Len(needle) - 1) = needle

\* the comma-separated sub-tokens of s: its longest runs without a comma
SubTokens(s) ==
    {SubSeq(s, i, j) : i \in 1..Len(s), j \in 1..Len(s)} \cap
    {SubSeq(s, i, j) : <<i, j>> \in
        {ij \in (1..Len(s)) \X (1..Len(s)) :
            /\ ij[1] <= ij[2]
            /\ \A k \in ij[1]..ij[2] : s[k] # ","
            /\ ij[1] = 1 \/ s[ij[1] - 1] = ","
            /\ ij[2] = Len(s) \/ s[ij[2] + 1] = ","}}

\* every sub-token of the lower-cased query that is non-empty once trimmed
\* occurs in the lower-cased tags of the note
EveryTokenOccurs(noteTags, queryTags) ==
    \A tok \in SubTokens(LowerCopy(queryTags)) :
        cn_strip_whitespace(tok) # <<>>
            => Occurs(cn_strip_whitespace(tok), LowerCopy(noteTags))

TagsReturned == pc = "ret" /\ search.op = "match_tags"
TagsInBound ==
    /\ Len(search.note.tags) < MAX_TAGS_LEN
    /\ search.opts.tags = NULL \/ Len(search.opts.tags) < MAX_TAGS_LEN

\* C17: for note tags and query tags within the tags bound (and while memory
\* is available), cn_note_match_tags returns true exactly when the query is
\* empty or absent or every non-empty trimmed comma-separated sub-token of
\* the lower-cased query occurs in the lower-cased tags of the note.
C17_TagsMatch ==
    TagsReturned /\ TagsInBound /\ search.env[1].tagsAlloc
        => (search.ret = 1
            <=> \/ search.opts.tags = NULL
                \/ search.opts.tags = <<>>
                \/ EveryTokenOccurs(search.note.tags, search.opts.tags))


----------------------------------------------------------------------------
(* Content matching *)

ContentReturned == pc = "ret" /\ search.op = "match_content"
NoPattern == search.opts.pattern = NULL \/ search.opts.pattern = <<>>
LiteralMode == ContentReturned /\ ~search.opts.regex_mode /\ ~NoPattern

\* the pattern equals (exact_match) or occurs in the title, the content or the
\* tags of the note, all four lower-cased first when fold is set
LiteralHit(fold) ==
    LET f(s) == IF fold THEN LowerCopy(s) ELSE s
        p == f(search.opts.pattern)
    IN  \E field \in {f(search.note.title), f(search.note.content),
                      f(search.note.tags)} :
            IF search.opts.exact_match THEN field = p ELSE Occurs(p, field)

\* C18, for calls whose allocations succeed: an empty or absent pattern matches every note in every mode, and in literal mode the
\* call returns true exactly when the pattern equals (exact_match) or occurs
\* in a field, all lower-cased first when case_insensitive is set, whatever
\* word_boundary and multiline are and whatever the length of the pattern.
C18_AsClaimed ==
    ContentReturned /\ search.env[1].alloc
        => /\ NoPattern => search.ret = 1
           /\ LiteralMode
                => (search.ret = 1 <=> LiteralHit(search.opts.case_insensitive))

\* What cn_note_match_content does in literal mode in every case: without
\* case_insensitive it returns true exactly when the pattern equals
\* (exact_match) or occurs in the title, the content or the tags.  With
\* case_insensitive it returns true exactly when the pattern has at most
\* MAX_SEARCH_LEN characters, the lower-cased copies could be allocated, and
\* the lower-cased pattern equals or occurs in a lower-cased field.
C18_LiteralMatch ==
    ContentReturned
        => /\ NoPattern => search.ret = 1
           /\ LiteralMode
                => (search.ret = 1
                    <=> IF search.opts.case_insensitive
                        THEN /\ Len(search.opts.pattern) <= MAX_SEARCH_LEN
                             /\ search.env[1].alloc
                             /\ LiteralHit(TRUE)
                        ELSE LiteralHit(FALSE))

\* a folded literal match that is found although word_boundary and multiline
\* are set
C18_Witness ==
    /\ LiteralMode /\ search.ret = 1
    /\ search.opts.case_insensitive /\ ~search.opts.exact_match
    /\ search.opts.word_boundary /\ search.opts.multiline_mode
    /\ ~LiteralHit(FALSE)

\* a pattern longer than MAX_SEARCH_LEN that occurs in the content: found
\* without case_insensitive ...
C18_WitnessLong ==
    /\ LiteralMode /\ search.ret = 1 /\ ~search.opts.case_insensitive
    /\ Len(search.opts.pattern) > MAX_SEARCH_LEN

\* ... and not found with it
C18_WitnessRefused ==
    /\ LiteralMode /\ search.ret = 0 /\ search.opts.case_insensitive
    /\ search.env[1].alloc
    /\ Len(search.opts.pattern) > MAX_SEARCH_LEN
    /\ LiteralHit(TRUE)


----------------------------------------------------------------------------
(* Patterns the regex mode cannot use *)

ListReturned == pc = "ret" /\ search.op = "list"
HasPattern(opts) == opts.pattern # NULL /\ opts.pattern # <<>>

\* the pattern is oversized for the regex mode
Oversized(opts) == Len(opts.pattern) + PatternRoom > MAX_SEARCH_LEN * 4

\* regcomp fails on the pattern as it is handed over, the environment e given
CompileFails(opts, e) ==
    ~regcomp(IF opts.word_boundary
             THEN <<"\\b">> \o opts.pattern \o <<"\\b">> ELSE opts.pattern,
             opts.case_insensitive, e.comp).ok

\* C19: in regex mode a pattern that fails to compile or is oversized makes
\* cn_note_match_content return false for every note; a matching call always
\* returns, with match or no match and nothing else, and a list with such a
\* pattern prints no note and returns normally.
C19_BadPatternNoMatch ==
    /\ ContentReturned /\ search.opts.regex_mode /\ HasPattern(search.opts)
       /\ (Oversized(search.opts) \/ CompileFails(search.opts, search.env[1]))
            => search.ret = 0
    /\ search.op # "none" => pc = "ret" /\ search.ret \in {0, 1}
    /\ ListReturned /\ search.opts.regex_mode /\ HasPattern(search.opts)
       /\ (Oversized(search.opts)
           \/ \A i \in 1..db.count : CompileFails(search.opts, search.env[i]))
            => search.found = <<>> /\ search.ret = 0 /\ db = old

\* the pattern "(" does not compile although memory is there, and the note
\* holds it as plain text: no match
C19_Witness ==
    /\ ContentReturned /\ search.opts.regex_mode /\ HasPattern(search.opts)
    /\ search.env[1].alloc /\ search.env[1].comp
    /\ ~Oversized(search.opts)
    /\ Occurs(search.opts.pattern, search.note.title)
    /\ search.ret = 0

\* an oversized pattern that would match once compiled: no match
C19_WitnessOversized ==
    /\ ContentReturned /\ search.opts.regex_mode
    /\ Oversized(search.opts) /\ search.env[1].alloc /\ search.env[1].comp
    /\ RegexFields(regcomp(search.opts.pattern, FALSE, TRUE), search.note) = 1
    /\ search.ret = 0

\* a list of a store with notes, with a pattern that does not compile
C19_WitnessList ==
    /\ ListReturned /\ search.opts.regex_mode /\ HasPattern(search.opts)
    /\ db.count = ListNotes /\ search.opts.tags = NULL
    /\ \E i \in 1..db.count : Occurs(search.opts.pattern, db.notes[i].title)
    /\ search.found = <<>>


----------------------------------------------------------------------------
(* Listing *)

\* the slots of the live notes for which both matching calls of the list
\* hold, given what the environment gave each of them
Qualifying ==
    {i \in 1..db.count :
        /\ cn_note_match_content(db.notes[i], search.opts,
                                 search.env[i].alloc, search.env[i].comp) = 1
        /\ cn_note_match_tags(db.notes[i].tags, search.opts.tags,
                              search.env[i].tagsAlloc) = 1}

\* the k-th slot of Qualifying in store order
KthQualifying(k) ==
    CHOOSE i \in Qualifying : Cardinality({j \in Qualifying : j < i}) = k - 1

C20_Listed ==
    ListReturned
        => /\ Len(search.found) = Cardinality(Qualifying)
           /\ \A k \in 1..Len(search.found) :
                search.found[k] = db.notes[KthQualifying(k)]
           /\ db = old

\* a step that changes the store is an add, an edit or a delete, or it
\* replaces the store: load at start, cleanup at exit, a new process
C20_OnlyMutators ==
    /\ db' # db
         => \/ pc = "call" /\ call.op \in {"add", "edit", "delete"}
            \/ pc = "boot"
            \/ pc = "dead"
            \/ pc = "idle" /\ pc' = "dead" /\ call'.op = "exit"
    /\ search' # search /\ search' # NoSearch => db' = db /\ disk' = disk

\* C20: the list reports exactly the live notes for which both
\* cn_note_match_content and cn_note_match_tags hold, in store order, and
\* leaves the store and the snapshot as they are; the store is changed only
\* by add, edit and delete or replaced by load and reset, never by a matching
\* call or a step of save.
C20_ListFrame == [](C20_Listed) /\ [][C20_OnlyMutators]_vars

\* a list of a saved store of ListNotes notes that reports one and not the other
C20_Witness ==
    /\ ListReturned /\ db.count = ListNotes /\ disk.final.exists
    /\ Len(search.found) = 1
    /\ search.opts.tags # NULL /\ search.opts.pattern # NULL

\* a step of save that ran over a store with notes
C20_WitnessSave == pc = "save_rename" /\ db.count > 0


----------------------------------------------------------------------------
(* Case folding and literal matches *)

\* C29, for calls whose allocations succeed: enabling case-insensitivity never
\* loses a literal match: when the call with case_insensitive off returns
\* true for a note and a non-empty pattern of any length, the call with
\* case_insensitive on and all other flags equal returns true too.
C29_FoldKeepsMatch ==
    LiteralMode /\ search.opts.case_insensitive /\ search.env[1].alloc
    /\ cn_note_match_content(search.note,
                             [search.opts EXCEPT !.case_insensitive = FALSE],
                             TRUE, TRUE) = 1
        => search.ret = 1


----------------------------------------------------------------------------
(* Resource exhaustion *)

\* the notes d held are the notes e holds in the same slots
StoreKept(d, e) ==
    /\ e.count = d.count /\ e.next_id = d.next_id
    /\ \A i \in 1..d.count : e.notes[i] = d.notes[i]

\* C22: a valid cn_note_add issued when count == MAX_NOTES, or when the store
\* is full and cannot grow, ends the process without returning an id, and at
\* that moment count, next_id and every existing note are as they were before
\* the call; an add that finds the store full and returns has grown it.
C22_NoPartialState ==
    Ended("add") /\ ~C8_BadArgs
        => /\ old.count = MAX_NOTES => pc = "dead"
           /\ pc = "dead" => /\ call.fatal /\ call.ret = 0
                             /\ StoreKept(old, db)
                             /\ db.capacity = old.capacity
           /\ pc = "ret" /\ old.count = old.capacity
                => /\ call.ret # 0
                   /\ db.capacity = NewCapacity(old.capacity)
                   /\ db.capacity > old.capacity

\* a valid add that found MAX_NOTES notes
C22_Witness ==
    /\ Ended("add") /\ ~C8_BadArgs /\ pc = "dead"
    /\ old.count = MAX_NOTES /\ old.capacity = MAX_NOTES

\* a valid add whose growth failed below MAX_NOTES
C22_WitnessGrowth ==
    /\ Ended("add") /\ ~C8_BadArgs /\ pc = "dead"
    /\ old.count = old.capacity /\ 0 < old.count /\ old.count < MAX_NOTES


----------------------------------------------------------------------------
(* Capacity *)

\* C26: count <= capacity <= MAX_NOTES in every state; add, edit and delete
\* change capacity only in an add that found count == capacity, to
\* min(2 * capacity, MAX_NOTES), which exceeds the old capacity; a load that
\* returns leaves capacity >= count.
C26_Capacity ==
    /\ db.count <= db.capacity /\ db.capacity <= MAX_NOTES
    /\ pc \in {"ret", "dead"} /\ call.op \in {"add", "edit", "delete"}
       /\ db.capacity # old.capacity
         => /\ call.op = "add" /\ old.count = old.capacity
            /\ db.capacity = Min(2 * old.capacity, MAX_NOTES)
            /\ db.capacity > old.capacity
    /\ Returned("load") => db.capacity >= db.count /\ db.capacity >= 1

\* an add that grew a loaded store up to MAX_NOTES, where doubling would pass it
C26_Witness ==
    /\ Returned("add") /\ adds = -1
    /\ old.count = old.capacity
    /\ db.capacity = MAX_NOTES /\ 2 * old.capacity > MAX_NOTES

\* a load of a snapshot with records
C26_WitnessLoad == Returned("load") /\ db.count >= 2 /\ db.capacity >= db.count


----------------------------------------------------------------------------
(* Delete by swap *)

\* the first live position of d that holds id (the one cn_note_delete finds)
PositionOf(d, id) ==
    CHOOSE i \in 1..d.count :
        /\ d.notes[i].id = id
        /\ \A k \in 1..(i - 1) : d.notes[k].id # id

\* C27: a successful cn_note_delete of the note at position i copies the note
\* of the last live position into position i when i is not the last, leaves
\* every other live position as it was, zeroes the vacated last slot and
\* lowers count by one; and while no delete has succeeded since the empty
\* store, the notes stand in the order of their adds.
C27_SwapDelete ==
    /\ Returned("delete") /\ call.ret = 1
         => LET i == PositionOf(old, call.id)
            IN  /\ db.count = old.count - 1
                /\ i < old.count => db.notes[i] = old.notes[old.count]
                /\ \A k \in 1..(old.count - 1) :
                     k # i => db.notes[k] = old.notes[k]
                /\ db.notes[old.count] = ZeroNote
                /\ Len(db.notes) = Len(old.notes)
    /\ adds >= 0 /\ db.count = adds
         => \A k \in 1..db.count : db.notes[k].id = k

\* a delete of the first of MAX_NOTES notes: the last one takes its place
C27_Witness ==
    /\ Returned("delete") /\ call.ret = 1
    /\ old.count = MAX_NOTES /\ old.notes[1].id = call.id
    /\ db.notes[1] = old.notes[MAX_NOTES]
    /\ db.notes[1].id # 1

\* after a delete the order is no longer the order of the adds
C27_WitnessOrder ==
    /\ pc = "idle" /\ db.count >= 2
    /\ db.notes[1].id > db.notes[2].id
    /\ adds = MAX_NOTES


----------------------------------------------------------------------------
(* Edits that apply no field *)

\* C28: a cn_note_edit call on an existing id in which title and content are
\* absent or empty and tags is absent applies no field and leaves the note,
\* modified_at included, as it was.
C28_NoFieldNoStamp ==
    (/\ Returned("edit") /\ IsLive(old, call.id)
     /\ call.title \in {NULL, <<>>} /\ call.content \in {NULL, <<>>}
     /\ call.tags = NULL)
        => db = old


----------------------------------------------------------------------------
(* Records of a loaded snapshot *)

\* s cut at the last byte of a buffer of size max
CutAt(s, max) == IF Len(s) > max - 1 THEN SubSeq(s, 1, max - 1) ELSE s

\* the load returned the records of a snapshot with count >= 1
LoadedRecords ==
    /\ Returned("load") /\ disk.final.exists /\ ~Malformed(disk.final)
    /\ disk.final.data[1] >= 1

\* C24: after a successful cn_db_load of a snapshot with count >= 1 the store
\* holds exactly the count records of the file in file order, each with its
\* title, content and tags cut at the last byte of its buffer and its id and
\* timestamps as they are in the file; a record with id 0 or a negative
\* timestamp is kept like every other record.
C24_LoadedRecords ==
    LoadedRecords
        => /\ db.count = disk.final.data[1]
           /\ db.next_id = disk.final.data[2]
           /\ \A i \in 1..db.count :
                LET rec == disk.final.data[2 + i]
                IN  /\ db.notes[i].id = rec.id
                    /\ db.notes[i].created_at = rec.created_at
                    /\ db.notes[i].modified_at = rec.modified_at
                    /\ db.notes[i].title = CutAt(rec.title, MAX_TITLE_LEN)
                    /\ db.notes[i].content = CutAt(rec.content, MAX_CONTENT_LEN)
                    /\ db.notes[i].tags = CutAt(rec.tags, MAX_TAGS_LEN)

\* a loaded snapshot with a record of id 0 whose title filled its buffer and a
\* record with a negative timestamp
C24_Witness ==
    /\ LoadedRecords /\ db.count = 2
    /\ db.notes[1].id = 0
    /\ Len(disk.final.data[3].title) = MAX_TITLE_LEN
    /\ Len(db.notes[1].title) = MAX_TITLE_LEN - 1
    /\ db.notes[2].created_at < 0


----------------------------------------------------------------------------
(* Two processes, one snapshot path *)

\* C25: under every interleaving of two processes that run cn_db_save on the
\* same snapshot path, the file at the final path holds at every moment a
\* complete snapshot written by a single process.
C25_FinalAlwaysComplete ==
    race.final # 0 /\ race.ino[race.final] \in race.snaps

\* both processes went through their load, their adds and their save
BothFinished ==
    \A p \in Procs : Proc(p).pc \in {"done", "dead"} /\ Proc(p).fd # 0

\* C21: when two processes have each run a load, mutate, save cycle against
\* the same snapshot path, the snapshot file is the complete snapshot written
\* by the one whose rename happened last.
C21_LastRenameWins ==
    BothFinished
        => /\ race.last # 0
           /\ race.ino[race.final] = Snapshot(Proc(race.last).db)


----------------------------------------------------------------------------
(* C23, C30: CSV import and export. *)

\* an import ran to its end and went on to save
Imported == csv.op = "import" /\ ~csv.fatal

\* the letters of the header in small letters
HeaderFold(c) ==
    CASE c = "I" -> "i" [] c = "D" -> "d" [] c = "T" -> "t" [] c = "C" -> "c"
      [] OTHER -> c

\* a header line, whatever the case of its letters
IsHeaderAnyCase(line) ==
    strstr([i \in 1..Len(line) |-> HeaderFold(line[i])], HeaderLower) # 0

\* the lines of a text, without their line ends
RECURSIVE LinesOf(_, _)
LinesOf(text, cur) ==
    IF text = <<>> THEN (IF cur = <<>> THEN <<>> ELSE <<cur>>)
    ELSE IF Head(text) = "\n" THEN <<cur>> \o LinesOf(Tail(text), <<>>)
    ELSE LinesOf(Tail(text), Append(cur, Head(text)))

\* the rows of a file as the claim has them: the lines but a header in the
\* first line and the blank ones
ClaimedRows(text) ==
    LET lines == LinesOf(text, <<>>)
        body == IF lines # <<>> /\ IsHeaderAnyCase(lines[1]) THEN Tail(lines)
                ELSE lines
    IN  SelectSeq(body, LAMBDA l : l # <<>>)

\* a row with too few fields or an empty title or content
RowRejected(row) == ParseRow(row).title = <<>> \/ ParseRow(row).content = <<>>

\* the rows added one by one through cn_note_add, the rejected ones counted
RECURSIVE ClaimedImport(_, _, _, _, _)
ClaimedImport(d, rows, imported, errors, t) ==
    IF rows = <<>> THEN [db |-> d, imported |-> imported, errors |-> errors]
    ELSE IF RowRejected(Head(rows))
    THEN ClaimedImport(d, Tail(rows), imported, errors + 1, t)
    ELSE Only({ClaimedImport(r.db, Tail(rows),
                             IF r.ret # 0 THEN imported + 1 ELSE imported,
                             IF r.ret # 0 THEN errors ELSE errors + 1, t) :
                 r \in {LET f == ParseRow(Head(rows))
                        IN  cn_note_add(d, f.title, f.content,
                                        IF f.tags # <<>> THEN f.tags ELSE NULL,
                                        t, TRUE)}})

\* the store an import starts from
ImportStart ==
    IF csv.merge THEN csv.before
    ELSE cn_db_init(cn_db_cleanup(csv.before), TRUE).db

\* C23: an import skips a header in its first line whatever the case of its
\* letters, skips blank lines, counts as an error and skips every row with
\* too few fields or an empty title or content, and adds every other row
\* through cn_note_add, which gives it the store's next_id; a non-merging
\* import starts from the empty store.
C23_ImportRows ==
    Imported
        => LET e == ClaimedImport(ImportStart, ClaimedRows(csv.file.data),
                                  0, 0, now)
           IN  /\ db = e.db
               /\ csv.imported = e.imported
               /\ csv.errors = e.errors

\* the file an import read is the export of the store it found
ReadOwnExport == csv.file = FileOf(ExportText(csv.before))

\* C30: export followed by a non-merging import of the exported file gives a
\* store with as many notes and, in the same order, the same title, content
\* and tags, the ids counted from 1 and both times those of the import.
C30_RoundTrip ==
    Imported /\ ~csv.merge /\ ReadOwnExport
        => /\ db.count = csv.before.count
           /\ \A i \in 1..csv.before.count :
                /\ i <= db.count
                /\ db.notes[i].title = csv.before.notes[i].title
                /\ db.notes[i].content = csv.before.notes[i].content
                /\ db.notes[i].tags = csv.before.notes[i].tags
                /\ db.notes[i].id = i
                /\ db.notes[i].created_at = now
                /\ db.notes[i].modified_at = now

====
